---- MODULE Spec2Model ----
(***************************************************************************)
(* State-machine model of the POP receiving checklist                      *)
(* (src/Component/PopTracking.tsx): the React state of the PopTracking     *)
(* component, the browser's localStorage, and the suspended calls of the   *)
(* asynchronous handleSubmit; the catalog sheets and their ingestion by    *)
(* parseCSV; the branch resolver and the HistoryPanel component            *)
(* (src/unnamed/part_000); and the OrderPanel component                    *)
(* (src/Component/OrderPanel.tsx).                                         *)
(*                                                                         *)
(* Text is modelled as a tuple of one-character strings where the code     *)
(* looks inside it (branch names, item names, item ids, storage keys) and  *)
(* as a TLA+ string where the code only tests it for emptiness or passes   *)
(* it on (date, note).  The empty text is <<>> or "".                      *)
(***************************************************************************)
EXTENDS Integers, Sequences, FiniteSets, TLC

VARIABLES
    database,          \* useState<InventoryItem[]>        (line 41)
    branches,          \* useState<string[]>               (line 42)
    loadingStatus,     \* 'loading' | 'ready' | 'error'    (line 43)
    selectedBranch,    \* useState<string>('')             (line 45)
    selectedCategory,  \* useState<string>('all')          (line 46)
    selectedDate,      \* useState<string>('')             (line 47)
    checkedItems,      \* the ids whose checkedItems[id] is truthy (line 50)
    localStorage,      \* the keys the browser's localStorage holds
    reportNote,        \* useState<string>('')             (line 52)
    selectedFiles,     \* useState<File[]>([])             (line 53)
    isDefectMode,      \* useState<boolean>(false)         (line 54)
    isSubmitting,      \* useState<boolean>(false)         (line 55)
    pending,           \* the handleSubmit calls suspended at an await
    alert,             \* the message of the open alert() box, "" when none
    sheets,            \* the texts the three fetches of loadAllData answer with
    rawBranch,         \* resolveCanonicalBranch's rawBranch
    canonicalBranches, \* resolveCanonicalBranch's canonicalBranches, in iteration order
    resolved,          \* what resolveCanonicalBranch returned
    historyBranch,     \* HistoryPanel's selectedBranch      (part_000, line 23)
    historyDate,       \* HistoryPanel's selectedDate        (part_000, line 24)
    historyData,       \* useState<HistoryRecord | null>     (part_000, line 25)
    isHistoryLoading,  \* useState(false)                    (part_000, line 26)
    historyQuery,      \* the handleSearchHistory call suspended at an await
    reportStore,       \* the records the external report store holds
    orderBranch,       \* OrderPanel's selectedBranch      (OrderPanel, line 14)
    orderCategory,     \* OrderPanel's selectedCategory    (OrderPanel, line 15)
    orderQuantities,   \* useState<Record<string, number>> (OrderPanel, line 16)
    orderSaved         \* the files saveAs has written      (OrderPanel, line 80)

vars == <<database, branches, loadingStatus, selectedBranch, selectedCategory,
          selectedDate, checkedItems, localStorage, reportNote, selectedFiles,
          isDefectMode, isSubmitting, pending, alert,
          sheets, rawBranch, canonicalBranches, resolved,
          historyBranch, historyDate, historyData, isHistoryLoading,
          historyQuery, reportStore,
          orderBranch, orderCategory, orderQuantities, orderSaved>>

\* the state of the HistoryPanel component and the store it queries
history == <<historyBranch, historyDate, historyData, isHistoryLoading,
             historyQuery, reportStore>>

\* the state of the OrderPanel component and the files it has saved
order == <<orderBranch, orderCategory, orderQuantities, orderSaved>>

\* what no handler of the PopTracking component writes
others == <<sheets, rawBranch, canonicalBranches, resolved, history, order>>

-----------------------------------------------------------------------------
(* Bounds of the model *)

\* handleSubmit calls that may be suspended at the same time
MaxInflight == 1
\* files the operator may pick in one file-chooser selection
MaxPick == 2

(* Program constants *)

\* the attachment limit of handleFileSelect
MaxFiles == 3

-----------------------------------------------------------------------------
(* Text helpers *)

IsSpace(c) == c \in {" ", "\t"}

\* s.replace(/\s+/g, '_'): every maximal run of whitespace becomes one '_'
RECURSIVE ReplaceSpaces(_)
ReplaceSpaces(s) ==
    IF s = <<>> THEN <<>>
    ELSE IF IsSpace(Head(s))
         THEN IF Len(s) > 1 /\ IsSpace(s[2])
              THEN ReplaceSpaces(Tail(s))
              ELSE <<"_">> \o ReplaceSpaces(Tail(s))
         ELSE <<Head(s)>> \o ReplaceSpaces(Tail(s))

\* `${branchName}_${itemName}`.replace(/\s+/g, '_')
MakeId(branchName, itemName) == ReplaceSpaces(branchName \o <<"_">> \o itemName)

\* the InventoryItem parseCSV pushes for one (branch, item) cell with qty > 0
InventoryItem(branchName, categoryName, itemName, qty) ==
    [branch |-> branchName, category |-> categoryName, item |-> itemName,
     qty |-> qty, id |-> MakeId(branchName, itemName)]

\* 'pop_check_' + id
StorageKey(id) == <<"pop_check_">> \o id

\* the startup scan: every key starting with 'pop_check_' gives the id after it
LoadSavedChecks(store) ==
    {Tail(k) : k \in {key \in store : key # <<>> /\ Head(key) = "pop_check_"}}

-----------------------------------------------------------------------------
(* The catalogs a load may produce *)

Bkk == <<"B", "k", "k">>
Cnx == <<"C", "n", "x">>
AspB == <<"A", " ", "B">>
AusB == <<"A", "_", "B">>
Pen == <<"P", "e", "n">>
Cup == <<"C", "u", "p">>

\* the category filter's options (lines 382-385); Special-POP, which no catalog
\* below has items in, is left out
CategoryOptions == {"all", "RE-Brand", "RE-System"}

\* one branch with items in two categories
CatalogTwoCategories ==
    [items    |-> << InventoryItem(Bkk, "RE-Brand", Pen, 2),
                     InventoryItem(Bkk, "RE-System", Cup, 1) >>,
     branches |-> << Bkk >>]

\* two branches expecting the same item
CatalogTwoBranches ==
    [items    |-> << InventoryItem(Bkk, "RE-Brand", Pen, 2),
                     InventoryItem(Cnx, "RE-Brand", Pen, 3) >>,
     branches |-> << Bkk, Cnx >>]

\* header labels that differ only by a space against an underscore, and one
\* item name listed in two categories of the same branch
CatalogSameIds ==
    [items    |-> << InventoryItem(AspB, "RE-Brand", Pen, 1),
                     InventoryItem(AusB, "RE-Brand", Pen, 4),
                     InventoryItem(AspB, "RE-System", Pen, 2) >>,
     branches |-> << AspB, AusB >>]

Catalogs == {CatalogTwoCategories, CatalogTwoBranches, CatalogSameIds}

Today == "2026-11-03"
Dates == {"", Today}

\* finalNote of a complete report, "Received All (...)" (line 264)
ReceivedAll == "Received All"
\* the texts the operator may type into the note field: nothing, or a text;
\* the text is the one the code itself writes into complete reports
Notes == {"", ReceivedAll}

Photo == "photo.jpg"

\* ids a previous session may have left in localStorage
SavedIds == {MakeId(Bkk, Pen)}

-----------------------------------------------------------------------------
(* The alert() messages, in English *)

NoAlert == ""
AlertToggleNoDate == "give the receiving date first"                \* line 200
AlertTooManyFiles == "no more than 3 files"                         \* line 220
AlertNoBranch == "select a branch"                                  \* line 232
AlertNoDate == "select a date"                                      \* line 233
AlertMissingEvidence == "items missing: give details or a picture"  \* line 246
AlertDefectNote == "defect: describe the damage"                    \* line 249
AlertDefectPicture == "defect: attach a picture"                    \* line 250
AlertCompletePicture == "complete: attach a picture"                \* line 253
AlertSavedMissing == "saved, with items missing"                    \* line 285
AlertSavedDefect == "saved (defect)"                                \* line 289
AlertSavedComplete == "saved (complete)"                            \* line 291
AlertDispatchFailed == "sending failed"                             \* line 309

-----------------------------------------------------------------------------
(* Derived values (useMemo) *)

\* filteredData (lines 176-183)
FilteredData ==
    IF selectedBranch = <<>> THEN <<>>
    ELSE LET data == SelectSeq(database, LAMBDA d : d.branch = selectedBranch)
         IN  IF selectedCategory # "all"
             THEN SelectSeq(data, LAMBDA d : d.category = selectedCategory)
             ELSE data

\* Progress with Math.floor for the Math.round of line 192
ProgressRoundedDown ==
    IF Len(FilteredData) = 0
    THEN [count |-> 0, total |-> 0, percent |-> 0, isComplete |-> FALSE]
    ELSE LET checkedCount ==
                 Len(SelectSeq(FilteredData, LAMBDA it : it.id \in checkedItems))
             total == Len(FilteredData)
         IN  [count |-> checkedCount, total |-> total,
              percent |-> (100 * checkedCount) \div total,
              isComplete |-> checkedCount = total]

\* (count / total) * 100 is computed in doubles: at these fractions, the
\* only ones in lists of up to 260 items, the exact value ends in a half and
\* the double is just below it
BelowHalfInDoubles(count, total) ==
    \E f \in {<<23, 40>>, <<29, 200>>, <<57, 200>>, <<113, 200>>} :
       count * f[2] = total * f[1]

\* Math.round((count / total) * 100) (line 192): a half is rounded up
RoundedPercent(count, total) ==
    ((200 * count + total) \div (2 * total))
    - (IF BelowHalfInDoubles(count, total) THEN 1 ELSE 0)

\* Progress with Math.ceil for the Math.round of line 192
ProgressRoundedUp ==
    IF Len(FilteredData) = 0
    THEN [count |-> 0, total |-> 0, percent |-> 0, isComplete |-> FALSE]
    ELSE LET checkedCount ==
                 Len(SelectSeq(FilteredData, LAMBDA it : it.id \in checkedItems))
             total == Len(FilteredData)
         IN  [count |-> checkedCount, total |-> total,
              percent |-> (100 * checkedCount + total - 1) \div total,
              isComplete |-> checkedCount = total]

\* progress (lines 185-195)
Progress ==
    IF Len(FilteredData) = 0
    THEN [count |-> 0, total |-> 0, percent |-> 0, isComplete |-> FALSE]
    ELSE LET checkedCount ==
                 Len(SelectSeq(FilteredData, LAMBDA it : it.id \in checkedItems))
             total == Len(FilteredData)
         IN  [count |-> checkedCount, total |-> total,
              percent |-> RoundedPercent(checkedCount, total),
              isComplete |-> checkedCount = total]

\* the report section is rendered (line 399)
ReportShown == selectedBranch # <<>> /\ Len(FilteredData) > 0


\* the defect toggle is rendered (line 471)
DefectButtonShown == ReportShown /\ (Progress.isComplete \/ isDefectMode)

\* the note textarea is rendered (line 482)
NoteFieldShown == ReportShown /\ (~Progress.isComplete \/ isDefectMode)

-----------------------------------------------------------------------------
(* handleSubmit's pure parts *)

\* allBranchItems (line 235)
AllBranchItems(db, branch) == SelectSeq(db, LAMBDA d : d.branch = branch)

\* MissingOf with the rows on screen (filteredData) in place of allBranchItems
MissingOfShownRows(db, branch, checked) ==
    SelectSeq(SelectSeq(AllBranchItems(db, branch),
                        LAMBDA d : selectedCategory = "all"
                                   \/ d.category = selectedCategory),
              LAMBDA it : it.id \notin checked)

\* the items missingList is mapped from (lines 236-237)
MissingOf(db, branch, checked) ==
    SelectSeq(AllBranchItems(db, branch), LAMBDA it : it.id \notin checked)

\* ` ${item.item} (จำนวน: ${item.qty})` (line 238)
MissingLine(it) == <<" ">> \o it.item \o <<" (qty: ", ToString(it.qty), ")">>

\* missingList.join("\n")
RECURSIVE JoinLines(_)
JoinLines(items) ==
    IF items = <<>> THEN <<>>
    ELSE IF Len(items) = 1 THEN MissingLine(items[1])
    ELSE MissingLine(items[1]) \o <<"\n">> \o JoinLines(Tail(items))

\* missingString (lines 240-241)
MissingString(db, branch, checked) ==
    LET missing == MissingOf(db, branch, checked)
    IN  IF Len(missing) > 0 THEN JoinLines(missing) ELSE <<"-">>

\* Validate without the date guard of line 233
ValidateWithoutDate(db, branch, date, checked, note, files, defect) ==
    IF branch = <<>> THEN AlertNoBranch
    ELSE IF Len(MissingOf(db, branch, checked)) > 0
         THEN IF note = "" /\ Len(files) = 0 THEN AlertMissingEvidence
              ELSE NoAlert
    ELSE IF defect
         THEN IF note = "" THEN AlertDefectNote
              ELSE IF Len(files) = 0 THEN AlertDefectPicture
              ELSE NoAlert
    ELSE IF Len(files) = 0 THEN AlertCompletePicture
    ELSE NoAlert

\* Validate with || for && in line 245
ValidateMissingNeedsBoth(db, branch, date, checked, note, files, defect) ==
    IF branch = <<>> THEN AlertNoBranch
    ELSE IF date = "" THEN AlertNoDate
    ELSE IF Len(MissingOf(db, branch, checked)) > 0
         THEN IF note = "" \/ Len(files) = 0 THEN AlertMissingEvidence
              ELSE NoAlert
    ELSE IF defect
         THEN IF note = "" THEN AlertDefectNote
              ELSE IF Len(files) = 0 THEN AlertDefectPicture
              ELSE NoAlert
    ELSE IF Len(files) = 0 THEN AlertCompletePicture
    ELSE NoAlert

\* Validate with line 249's note guard also in the last branch
ValidateCompleteNeedsNote(db, branch, date, checked, note, files, defect) ==
    IF branch = <<>> THEN AlertNoBranch
    ELSE IF date = "" THEN AlertNoDate
    ELSE IF Len(MissingOf(db, branch, checked)) > 0
         THEN IF note = "" /\ Len(files) = 0 THEN AlertMissingEvidence
              ELSE NoAlert
    ELSE IF defect
         THEN IF note = "" THEN AlertDefectNote
              ELSE IF Len(files) = 0 THEN AlertDefectPicture
              ELSE NoAlert
    ELSE IF note = "" THEN AlertDefectNote
    ELSE IF Len(files) = 0 THEN AlertCompletePicture
    ELSE NoAlert

\* Validate without the picture guard of line 250
ValidateDefectNoteOnly(db, branch, date, checked, note, files, defect) ==
    IF branch = <<>> THEN AlertNoBranch
    ELSE IF date = "" THEN AlertNoDate
    ELSE IF Len(MissingOf(db, branch, checked)) > 0
         THEN IF note = "" /\ Len(files) = 0 THEN AlertMissingEvidence
              ELSE NoAlert
    ELSE IF defect
         THEN IF note = "" THEN AlertDefectNote
              ELSE NoAlert
    ELSE IF Len(files) = 0 THEN AlertCompletePicture
    ELSE NoAlert

\* the guards of lines 232-255: the alert the submit returns with, NoAlert
\* when it goes on to line 257
Validate(db, branch, date, checked, note, files, defect) ==
    IF branch = <<>> THEN AlertNoBranch
    ELSE IF date = "" THEN AlertNoDate
    ELSE IF Len(MissingOf(db, branch, checked)) > 0
         THEN IF note = "" /\ Len(files) = 0 THEN AlertMissingEvidence
              ELSE NoAlert
    ELSE IF defect
         THEN IF note = "" THEN AlertDefectNote
              ELSE IF Len(files) = 0 THEN AlertDefectPicture
              ELSE NoAlert
    ELSE IF Len(files) = 0 THEN AlertCompletePicture
    ELSE NoAlert

\* msg (lines 283-292), by its kind
SavedMessage(db, c) ==
    IF Len(MissingOf(db, c.branch, c.checked)) > 0 THEN AlertSavedMissing
    ELSE IF c.defect THEN AlertSavedDefect
    ELSE AlertSavedComplete

\* toBase64 (lines 168-173): the file read as a data URL
ToBase64(file) == <<"data:", file>>

\* mediaBase64 (line 260)
EncodeAll(files) == [i \in 1..Len(files) |-> ToBase64(files[i])]

\* FinalNote without the override of lines 263-265
FinalNoteAsTyped(db, c) == c.note

\* finalNote (lines 262-265)
FinalNote(db, c) ==
    IF Len(MissingOf(db, c.branch, c.checked)) = 0 /\ ~c.defect
    THEN ReceivedAll ELSE c.note

\* payload (lines 267-273), built from what the call captured when it started
Payload(db, c) ==
    [branch |-> c.branch, date |-> c.date, note |-> FinalNote(db, c),
     images |-> EncodeAll(c.files),
     missingItems |-> MissingString(db, c.branch, c.checked)]

NoPayload ==
    [branch |-> <<>>, date |-> "", note |-> "", images |-> <<>>,
     missingItems |-> <<>>]

\* what a handleSubmit call keeps from the render it was created in.  With no
\* file to encode, Promise.all([]) is settled already and the call runs on to
\* the fetch of line 275 before any other handler can run.
Closure(db, branch, date, checked, note, files, defect) ==
    LET c == [phase |-> "encoding", branch |-> branch, date |-> date,
              checked |-> checked, note |-> note, files |-> files,
              defect |-> defect, payload |-> NoPayload]
    IN  IF Len(files) = 0
        THEN [c EXCEPT !.phase = "posting", !.payload = Payload(db, c)]
        ELSE c

RemoveAt(seq, i) == [j \in 1..(Len(seq) - 1) |-> IF j < i THEN seq[j] ELSE seq[j + 1]]

IdsOf(items) == {items[i].id : i \in 1..Len(items)}

-----------------------------------------------------------------------------
(* parseCSV (lines 118-166) and the string methods it uses.  A sheet is a  *)
(* tuple of characters; each of the words the code searches for ("Head     *)
(* Office", "Total", "Tracking", "List", "No.", "POP") stands as one       *)
(* character of it.  Positions count from 1 where JavaScript's count from  *)
(* 0: the item name is in cell 2, with cell 1 as its fallback.             *)

IsWhite(c) == c \in {" ", "\t", "\r", "\n"}

RECURSIVE TrimStart(_)
TrimStart(s) ==
    IF s # <<>> /\ IsWhite(Head(s)) THEN TrimStart(Tail(s)) ELSE s

RECURSIVE TrimEnd(_)
TrimEnd(s) ==
    IF s # <<>> /\ IsWhite(s[Len(s)]) THEN TrimEnd(SubSeq(s, 1, Len(s) - 1)) ELSE s

\* s.trim()
Trim(s) == TrimEnd(TrimStart(s))

\* s.split(sep): the pieces between the separators; one empty piece for ''
RECURSIVE Split(_, _)
Split(s, sep) ==
    IF \A k \in 1..Len(s) : s[k] # sep THEN <<s>>
    ELSE LET k == CHOOSE j \in 1..Len(s) :
                     s[j] = sep /\ \A h \in 1..(j - 1) : s[h] # sep
         IN  <<SubSeq(s, 1, k - 1)>> \o Split(SubSeq(s, k + 1, Len(s)), sep)

\* s.replace(/^"|"$/g, ''): a quote at the start goes, and one at the end
StripQuotes(s) ==
    LET t == IF s # <<>> /\ Head(s) = "\"" THEN Tail(s) ELSE s
    IN  IF t # <<>> /\ t[Len(t)] = "\"" THEN SubSeq(t, 1, Len(t) - 1) ELSE t

\* s.includes(word) and s.startsWith(word), for the words that are one character
Includes(s, word) == \E k \in 1..Len(s) : s[k] = word
StartsWith(s, word) == s # <<>> /\ s[1] = word

Digits == <<"0", "1", "2", "3", "4", "5", "6", "7", "8", "9">>
IsDigit(c) == \E v \in 1..Len(Digits) : Digits[v] = c
DigitValue(c) == (CHOOSE v \in 1..Len(Digits) : Digits[v] = c) - 1

\* the value of the digits a text starts with, after the digits read so far
RECURSIVE DigitsValue(_, _)
DigitsValue(s, sofar) ==
    IF s # <<>> /\ IsDigit(Head(s))
    THEN DigitsValue(Tail(s), 10 * sofar + DigitValue(Head(s)))
    ELSE sofar

\* parseInt(s): white space is skipped, a sign is read, then digits up to the
\* first character that is none; NaN when there is no digit.  (No sheet of
\* the model has a cell starting with 0x, which parseInt reads as hexadecimal.)
ParseInt(s) ==
    LET t == TrimStart(s)
        signed == t # <<>> /\ Head(t) \in {"-", "+"}
        u == IF signed THEN Tail(t) ELSE t
    IN  IF u = <<>> \/ ~IsDigit(Head(u)) THEN [isNaN |-> TRUE, n |-> 0]
        ELSE IF Head(t) = "-" THEN [isNaN |-> FALSE, n |-> 0 - DigitsValue(u, 0)]
        ELSE [isNaN |-> FALSE, n |-> DigitsValue(u, 0)]

\* lines (line 120)
CsvLines(csvText) == Split(Trim(csvText), "\n")

\* headerIndex (lines 121, 126-139): the first line with the anchor, 0 for -1
HeaderIndex(lines) ==
    IF \E i \in 1..Len(lines) : Includes(lines[i], "Head Office")
    THEN CHOOSE i \in 1..Len(lines) :
            /\ Includes(lines[i], "Head Office")
            /\ \A j \in 1..(i - 1) : ~Includes(lines[j], "Head Office")
    ELSE 0

\* name (line 131)
HeaderName(h) == StripQuotes(Trim(h))

\* the test of line 132: the header cell names a branch
IsBranchName(name) ==
    /\ name # <<>>
    /\ ~Includes(name, "Total") /\ ~Includes(name, "Tracking")
    /\ ~Includes(name, "List") /\ ~Includes(name, "No.")

\* the keys of branchIndices (line 134)
BranchColumns(headers) ==
    {index \in 1..Len(headers) : IsBranchName(HeaderName(headers[index]))}

\* ItemName without the fallback to row[0]
ItemNamePrimaryOnly(row) ==
    StripQuotes(Trim(IF Len(row) >= 2 THEN row[2] ELSE <<>>))

\* itemName (line 146): row[1] || row[0] || ""
ItemName(row) ==
    StripQuotes(Trim(IF Len(row) >= 2 /\ row[2] # <<>> THEN row[2]
                     ELSE IF Len(row) >= 1 /\ row[1] # <<>> THEN row[1]
                     ELSE <<>>))

\* the row is passed over (lines 145, 147)
SkipsRow(row) ==
    \/ Len(row) < 5
    \/ ItemName(row) = <<>>
    \/ StartsWith(ItemName(row), "Total")
    \/ StartsWith(ItemName(row), "Tracking")

\* qty (lines 151-152): row[index] || "0", trimmed, unquoted, parsed
Qty(row, index) ==
    ParseInt(StripQuotes(Trim(IF index <= Len(row) /\ row[index] # <<>>
                              THEN row[index] ELSE <<"0">>)))

\* what lines 151-162 push for one row and one branch column
CellItems(row, index, branchName, categoryName) ==
    LET qty == Qty(row, index)
    IN  IF ~qty.isNaN /\ qty.n > 0
        THEN <<InventoryItem(branchName, categoryName, ItemName(row), qty.n)>>
        ELSE <<>>

\* the loop of lines 149-163 over the branch columns from index on, in
\* ascending order (Object.entries of integer keys)
RECURSIVE RowItems(_, _, _, _)
RowItems(row, headers, categoryName, index) ==
    IF index > Len(headers) THEN <<>>
    ELSE (IF index \in BranchColumns(headers)
          THEN CellItems(row, index, HeaderName(headers[index]), categoryName)
          ELSE <<>>)
         \o RowItems(row, headers, categoryName, index + 1)

\* the loop of lines 143-164 over the lines from i on
RECURSIVE DataItems(_, _, _, _)
DataItems(lines, headers, categoryName, i) ==
    IF i > Len(lines) THEN <<>>
    ELSE (LET row == Split(lines[i], ",")
          IN  IF SkipsRow(row) THEN <<>>
              ELSE RowItems(row, headers, categoryName, 1))
         \o DataItems(lines, headers, categoryName, i + 1)

\* ParseCSV that takes the first line for the header when none has the anchor
ParseCSVFirstLineHeader(csvText, categoryName, branchSet) ==
    IF csvText = <<>> THEN [items |-> <<>>, branchSet |-> branchSet]
    ELSE LET lines == CsvLines(csvText)
             found == HeaderIndex(lines)
             headerIndex == IF found = 0 THEN 1 ELSE found
             headers == Split(lines[headerIndex], ",")
         IN  [items |-> DataItems(lines, headers, categoryName, headerIndex + 1),
              branchSet |-> branchSet \cup
                 {HeaderName(headers[index]) : index \in BranchColumns(headers)}]

\* parseCSV: the items it returns and the branchSet it leaves
ParseCSV(csvText, categoryName, branchSet) ==
    IF csvText = <<>> THEN [items |-> <<>>, branchSet |-> branchSet]
    ELSE LET lines == CsvLines(csvText)
             headerIndex == HeaderIndex(lines)
         IN  IF headerIndex = 0 THEN [items |-> <<>>, branchSet |-> branchSet]
             ELSE LET headers == Split(lines[headerIndex], ",")
                  IN  [items |-> DataItems(lines, headers, categoryName,
                                           headerIndex + 1),
                       branchSet |-> branchSet \cup
                          {HeaderName(headers[index]) :
                              index \in BranchColumns(headers)}]

-----------------------------------------------------------------------------
(* Initial state: the component is mounted and its effect (lines 58-109)   *)
(* has run: today's date is set, the saved checks are read back from       *)
(* localStorage, and the catalog load is in flight.                        *)

\* the component after its mount effect, in a browser whose localStorage
\* holds the given keys
MountedWith(store) ==
    /\ database = <<>>
    /\ branches = <<>>
    /\ loadingStatus = "loading"
    /\ selectedBranch = <<>>
    /\ selectedCategory = "all"
    /\ selectedDate = Today
    /\ localStorage = store
    /\ checkedItems = LoadSavedChecks(store)
    /\ reportNote = ""
    /\ selectedFiles = <<>>
    /\ isDefectMode = FALSE
    /\ isSubmitting = FALSE
    /\ pending = <<>>
    /\ alert = NoAlert

\* the component after its mount effect
Mounted ==
    \E S \in SUBSET SavedIds : MountedWith({StorageKey(id) : id \in S})

\* resolveCanonicalBranch is not called
ResolverIdle ==
    /\ rawBranch = <<>>
    /\ canonicalBranches = <<>>
    /\ resolved = <<>>

\* the HistoryPanel after its mount effect (part_000, lines 23-34): no branch,
\* today's date, no record (null is <<>>, a record r is <<r>>), no search
HistoryIdle ==
    /\ historyBranch = <<>>
    /\ historyDate = Today
    /\ historyData = <<>>
    /\ isHistoryLoading = FALSE
    /\ historyQuery = <<>>

\* the OrderPanel as it is first rendered (OrderPanel, lines 14-16): no
\* branch, the first category, no quantity (a quantity is a pair of an item
\* name and a number), and no file saved
OrderIdle ==
    /\ orderBranch = <<>>
    /\ orderCategory = "RE-Brand"
    /\ orderQuantities = {}
    /\ orderSaved = <<>>

\* the answers of the fetches are not looked at: LoadAllDataOk draws the
\* catalog they are parsed to
Init ==
    /\ Mounted /\ sheets = <<>> /\ ResolverIdle
    /\ HistoryIdle /\ reportStore = <<>>
    /\ OrderIdle

\* alert() blocks the page and its script until the box is closed: no handler
\* and no continuation of a suspended call runs while a box is open
Idle == alert = NoAlert

DismissAlert ==
    /\ alert # NoAlert
    /\ alert' = NoAlert
    /\ UNCHANGED <<database, branches, loadingStatus, selectedBranch,
                   selectedCategory, selectedDate, checkedItems, localStorage,
                   reportNote, selectedFiles, isDefectMode, isSubmitting,
                   pending>>
    /\ UNCHANGED others

-----------------------------------------------------------------------------
(* loadAllData (lines 75-106) *)

\* LoadAllDataOk that also drops the checks of ids the catalog does not have
LoadAllDataOkPrunesChecks(catalog) ==
    /\ Idle
    /\ loadingStatus = "loading"
    /\ database' = catalog.items
    /\ branches' = catalog.branches
    /\ loadingStatus' = "ready"
    /\ checkedItems' = checkedItems \cap {catalog.items[r].id : r \in 1..Len(catalog.items)}
    /\ UNCHANGED <<selectedBranch, selectedCategory, selectedDate,
                   localStorage, reportNote, selectedFiles, isDefectMode,
                   isSubmitting, pending, alert>>
    /\ UNCHANGED others

LoadAllDataOk(catalog) ==
    /\ Idle
    /\ loadingStatus = "loading"
    /\ database' = catalog.items
    /\ branches' = catalog.branches
    /\ loadingStatus' = "ready"
    /\ UNCHANGED <<selectedBranch, selectedCategory, selectedDate, checkedItems,
                   localStorage, reportNote, selectedFiles, isDefectMode,
                   isSubmitting, pending, alert>>
    /\ UNCHANGED others

\* the fetches of lines 78-80 that may fail: any of the three, one or more
FailedFetches == (SUBSET {1, 2, 3}) \ {{}}

\* LoadAllDataFail that merges the answers of the fetches that did not fail
LoadAllDataFailMergesRest(failed) ==
    /\ Idle
    /\ loadingStatus = "loading"
    /\ loadingStatus' = "error"
    /\ database' =
          (IF 1 \in failed THEN <<>> ELSE ParseCSV(sheets[1], "RE-Brand", {}).items)
          \o (IF 2 \in failed THEN <<>> ELSE ParseCSV(sheets[2], "RE-System", {}).items)
          \o (IF 3 \in failed THEN <<>> ELSE ParseCSV(sheets[3], "Special-POP", {}).items)
    /\ UNCHANGED <<branches, selectedBranch, selectedCategory,
                   selectedDate, checkedItems, localStorage, reportNote,
                   selectedFiles, isDefectMode, isSubmitting, pending, alert>>
    /\ UNCHANGED others

\* lines 77-81 and 102-105: a fetch rejects or answers with a status that is
\* not ok, fetchData throws (line 114), Promise.all rejects, and the catch
\* sets the status; the answers of the other fetches are dropped
LoadAllDataFail(failed) ==
    /\ Idle
    /\ loadingStatus = "loading"
    /\ loadingStatus' = "error"
    /\ UNCHANGED <<database, branches, selectedBranch, selectedCategory,
                   selectedDate, checkedItems, localStorage, reportNote,
                   selectedFiles, isDefectMode, isSubmitting, pending, alert>>
    /\ UNCHANGED others

-----------------------------------------------------------------------------
(* The controls (lines 367-397, 471-478, 487-492) *)

SetSelectedBranch(b) ==
    /\ Idle
    /\ loadingStatus = "ready"
    /\ b \in {<<>>} \cup {branches[i] : i \in 1..Len(branches)}
    /\ selectedBranch' = b
    /\ UNCHANGED <<database, branches, loadingStatus, selectedCategory,
                   selectedDate, checkedItems, localStorage, reportNote,
                   selectedFiles, isDefectMode, isSubmitting, pending, alert>>
    /\ UNCHANGED others

SetSelectedCategory(c) ==
    /\ Idle
    /\ selectedCategory' = c
    /\ UNCHANGED <<database, branches, loadingStatus, selectedBranch,
                   selectedDate, checkedItems, localStorage, reportNote,
                   selectedFiles, isDefectMode, isSubmitting, pending, alert>>
    /\ UNCHANGED others

SetSelectedDate(d) ==
    /\ Idle
    /\ selectedDate' = d
    /\ UNCHANGED <<database, branches, loadingStatus, selectedBranch,
                   selectedCategory, checkedItems, localStorage, reportNote,
                   selectedFiles, isDefectMode, isSubmitting, pending, alert>>
    /\ UNCHANGED others

SetReportNote(n) ==
    /\ Idle
    /\ NoteFieldShown
    /\ reportNote' = n
    /\ UNCHANGED <<database, branches, loadingStatus, selectedBranch,
                   selectedCategory, selectedDate, checkedItems, localStorage,
                   selectedFiles, isDefectMode, isSubmitting, pending, alert>>
    /\ UNCHANGED others

SetIsDefectMode ==
    /\ Idle
    /\ DefectButtonShown
    /\ isDefectMode' = ~isDefectMode
    /\ UNCHANGED <<database, branches, loadingStatus, selectedBranch,
                   selectedCategory, selectedDate, checkedItems, localStorage,
                   reportNote, selectedFiles, isSubmitting, pending, alert>>
    /\ UNCHANGED others

-----------------------------------------------------------------------------
(* handleToggleCheck (lines 198-212), called from a row of filteredData     *)
(* (line 433)                                                              *)

\* the updater of lines 203-211 on the state it is given
ToggledChecks(prev, id) ==
    IF id \in prev THEN prev \ {id} ELSE prev \cup {id}

\* localStorage after the updater: setItem when now checked, else removeItem
ToggledStorage(store, prev, id) ==
    IF id \notin prev THEN store \cup {StorageKey(id)}
    ELSE store \ {StorageKey(id)}

\* HandleToggleCheck without the date guard of lines 199-202
HandleToggleCheckAnyDate(id) ==
    /\ Idle
    /\ id \in IdsOf(FilteredData)
    /\ checkedItems' = ToggledChecks(checkedItems, id)
    /\ localStorage' = ToggledStorage(localStorage, checkedItems, id)
    /\ UNCHANGED <<database, branches, loadingStatus, selectedBranch,
                   selectedCategory, selectedDate, reportNote, selectedFiles,
                   isDefectMode, isSubmitting, pending, alert>>
    /\ UNCHANGED others

HandleToggleCheck(id) ==
    /\ Idle
    /\ id \in IdsOf(FilteredData)
    /\ IF selectedDate = ""
       THEN /\ alert' = AlertToggleNoDate
            /\ UNCHANGED <<checkedItems, localStorage>>
       ELSE /\ checkedItems' = ToggledChecks(checkedItems, id)
            /\ localStorage' = ToggledStorage(localStorage, checkedItems, id)
            /\ UNCHANGED alert
    /\ UNCHANGED <<database, branches, loadingStatus, selectedBranch,
                   selectedCategory, selectedDate, reportNote, selectedFiles,
                   isDefectMode, isSubmitting, pending>>
    /\ UNCHANGED others

-----------------------------------------------------------------------------
(* handleFileSelect (lines 214-225) and removeFile (lines 227-229) *)

\* HandleFileSelect that tests the new files alone against the limit
HandleFileSelectCountsNewOnly(fileList) ==
    /\ Idle
    /\ ReportShown
    /\ IF Len(fileList) > MaxFiles
       THEN /\ alert' = AlertTooManyFiles
            /\ UNCHANGED selectedFiles
       ELSE /\ selectedFiles' = selectedFiles \o fileList
            /\ UNCHANGED alert
    /\ UNCHANGED <<database, branches, loadingStatus, selectedBranch,
                   selectedCategory, selectedDate, checkedItems, localStorage,
                   reportNote, isDefectMode, isSubmitting, pending>>
    /\ UNCHANGED others

HandleFileSelect(fileList) ==
    /\ Idle
    /\ ReportShown
    /\ IF Len(selectedFiles) + Len(fileList) > MaxFiles
       THEN /\ alert' = AlertTooManyFiles
            /\ UNCHANGED selectedFiles
       ELSE /\ selectedFiles' = selectedFiles \o fileList
            /\ UNCHANGED alert
    /\ UNCHANGED <<database, branches, loadingStatus, selectedBranch,
                   selectedCategory, selectedDate, checkedItems, localStorage,
                   reportNote, isDefectMode, isSubmitting, pending>>
    /\ UNCHANGED others

RemoveFile(index) ==
    /\ Idle
    /\ ReportShown
    /\ index \in 1..Len(selectedFiles)
    /\ selectedFiles' = RemoveAt(selectedFiles, index)
    /\ UNCHANGED <<database, branches, loadingStatus, selectedBranch,
                   selectedCategory, selectedDate, checkedItems, localStorage,
                   reportNote, isDefectMode, isSubmitting, pending, alert>>
    /\ UNCHANGED others

-----------------------------------------------------------------------------
(* handleSubmit (lines 231-313).  The call runs to its first await (line   *)
(* 260), is resumed when the encoding settles, runs to its second await    *)
(* (line 275) and is resumed when the POST settles.  Between the awaits    *)
(* the other handlers may run; the call goes on with the values of the     *)
(* render it was created in.  isSubmitting only renders the overlay of     *)
(* lines 338-344: no handler reads it and no control is disabled by it.    *)

\* lines 231-260: validation, setIsSubmitting(true), the encoding starts
HandleSubmit ==
    /\ Idle
    /\ ReportShown
    /\ LET refusal == Validate(database, selectedBranch, selectedDate,
                               checkedItems, reportNote, selectedFiles,
                               isDefectMode)
       IN  IF refusal # NoAlert
           THEN /\ alert' = refusal
                /\ UNCHANGED <<isSubmitting, pending>>
           ELSE /\ isSubmitting' = TRUE
                /\ pending' = Append(pending,
                       Closure(database, selectedBranch, selectedDate,
                               checkedItems, reportNote, selectedFiles,
                               isDefectMode))
                /\ UNCHANGED alert
    /\ UNCHANGED <<database, branches, loadingStatus, selectedBranch,
                   selectedCategory, selectedDate, checkedItems, localStorage,
                   reportNote, selectedFiles, isDefectMode>>
    /\ UNCHANGED others

\* the submit button (lines 532-534), while the model has room for the call
SubmitClicked == Len(pending) < MaxInflight /\ HandleSubmit

\* lines 262-280: the encoding resolved; the payload is built and POSTed
EncodeDone(i) ==
    /\ Idle
    /\ i \in 1..Len(pending)
    /\ pending[i].phase = "encoding"
    /\ pending' = [pending EXCEPT ![i].phase = "posting",
                                  ![i].payload = Payload(database, pending[i])]
    /\ UNCHANGED <<database, branches, loadingStatus, selectedBranch,
                   selectedCategory, selectedDate, checkedItems, localStorage,
                   reportNote, selectedFiles, isDefectMode, isSubmitting, alert>>
    /\ UNCHANGED others

\* DispatchFailed with the resets of lines 296-298 moved into finally
DispatchFailedResets(i) ==
    /\ alert' = AlertDispatchFailed
    /\ isSubmitting' = FALSE
    /\ pending' = RemoveAt(pending, i)
    /\ reportNote' = ""
    /\ selectedFiles' = <<>>
    /\ isDefectMode' = FALSE
    /\ UNCHANGED <<database, branches, loadingStatus, selectedBranch,
                   selectedCategory, selectedDate, checkedItems, localStorage>>
    /\ UNCHANGED others

\* DispatchFailed without the finally of lines 310-312
DispatchFailedKeepsFlag(i) ==
    /\ alert' = AlertDispatchFailed
    /\ pending' = RemoveAt(pending, i)
    /\ UNCHANGED <<database, branches, loadingStatus, selectedBranch,
                   selectedCategory, selectedDate, checkedItems, localStorage,
                   reportNote, selectedFiles, isDefectMode, isSubmitting>>
    /\ UNCHANGED others

\* lines 307-312: an await rejected; catch, then finally
DispatchFailed(i) ==
    /\ alert' = AlertDispatchFailed
    /\ isSubmitting' = FALSE
    /\ pending' = RemoveAt(pending, i)
    /\ UNCHANGED <<database, branches, loadingStatus, selectedBranch,
                   selectedCategory, selectedDate, checkedItems, localStorage,
                   reportNote, selectedFiles, isDefectMode>>
    /\ UNCHANGED others

\* toBase64 rejected (reader.onerror)
EncodeFail(i) ==
    /\ Idle
    /\ i \in 1..Len(pending)
    /\ pending[i].phase = "encoding"
    /\ DispatchFailed(i)

\* fetch rejected
PostFail(i) ==
    /\ Idle
    /\ i \in 1..Len(pending)
    /\ pending[i].phase = "posting"
    /\ DispatchFailed(i)

\* newCheckedState (lines 300-304): the captured checkedItems without the
\* ids of the captured branch's items
NewCheckedState(db, c) == c.checked \ IdsOf(AllBranchItems(db, c.branch))

\* localStorage after the removeItem calls of line 303
ClearedStorage(db, c, store) ==
    store \ {StorageKey(id) : id \in IdsOf(AllBranchItems(db, c.branch))}

\* PostOk without the setSelectedFiles([]) of line 297
PostOkKeepsFiles(i) ==
    /\ Idle
    /\ i \in 1..Len(pending)
    /\ pending[i].phase = "posting"
    /\ alert' = SavedMessage(database, pending[i])
    /\ reportNote' = ""
    /\ isDefectMode' = FALSE
    /\ checkedItems' = NewCheckedState(database, pending[i])
    /\ localStorage' = ClearedStorage(database, pending[i], localStorage)
    /\ isSubmitting' = FALSE
    /\ pending' = RemoveAt(pending, i)
    /\ UNCHANGED <<database, branches, loadingStatus, selectedBranch,
                   selectedCategory, selectedDate, selectedFiles>>
    /\ UNCHANGED others

\* lines 282-305 and 310-312: fetch resolved; the alert, the cleanup, finally
PostOk(i) ==
    /\ Idle
    /\ i \in 1..Len(pending)
    /\ pending[i].phase = "posting"
    /\ alert' = SavedMessage(database, pending[i])
    /\ reportNote' = ""
    /\ selectedFiles' = <<>>
    /\ isDefectMode' = FALSE
    /\ checkedItems' = NewCheckedState(database, pending[i])
    /\ localStorage' = ClearedStorage(database, pending[i], localStorage)
    /\ isSubmitting' = FALSE
    /\ pending' = RemoveAt(pending, i)
    /\ UNCHANGED <<database, branches, loadingStatus, selectedBranch,
                   selectedCategory, selectedDate>>
    /\ UNCHANGED others

-----------------------------------------------------------------------------
\* every id of every catalog, and the saved ones
ItemIds == UNION {IdsOf(c.items) : c \in Catalogs} \cup SavedIds

\* the file lists the chooser may hand over
FileLists == {[i \in 1..n |-> Photo] : n \in 1..MaxPick}

Next ==
    \/ DismissAlert
    \/ \E catalog \in Catalogs : LoadAllDataOk(catalog)
    \/ \E failed \in FailedFetches : LoadAllDataFail(failed)
    \/ \E b \in {<<>>, Bkk, Cnx, AspB, AusB} : SetSelectedBranch(b)
    \/ \E c \in CategoryOptions : SetSelectedCategory(c)
    \/ \E d \in Dates : SetSelectedDate(d)
    \/ \E n \in Notes : SetReportNote(n)
    \/ SetIsDefectMode
    \/ \E id \in ItemIds : HandleToggleCheck(id)
    \/ \E fileList \in FileLists : HandleFileSelect(fileList)
    \/ \E index \in 1..MaxFiles : RemoveFile(index)
    \/ SubmitClicked
    \/ \E i \in 1..MaxInflight : EncodeDone(i)
    \/ \E i \in 1..MaxInflight : EncodeFail(i)
    \/ \E i \in 1..MaxInflight : PostFail(i)
    \/ \E i \in 1..MaxInflight : PostOk(i)

Spec == Init /\ [][Next]_vars

-----------------------------------------------------------------------------
(* The submit button pressed again while a report is in flight: the same   *)
(* handlers, on one catalog, with room for a second suspended call.        *)

\* handleSubmit calls that may be suspended at the same time in SpecTwoSubmits
MaxSubmits == 2

\* the submit button (lines 532-534), pressed with a call in flight or none
SubmitAgain == Len(pending) < MaxSubmits /\ HandleSubmit

NextTwoSubmits ==
    \/ DismissAlert
    \/ LoadAllDataOk(CatalogTwoBranches)
    \/ \E b \in {Bkk, Cnx} : SetSelectedBranch(b)
    \/ \E n \in Notes : SetReportNote(n)
    \/ \E id \in IdsOf(CatalogTwoBranches.items) : HandleToggleCheck(id)
    \/ HandleFileSelect(<<Photo>>)
    \/ SubmitAgain
    \/ \E i \in 1..MaxSubmits : EncodeDone(i)
    \/ \E i \in 1..MaxSubmits : PostFail(i)
    \/ \E i \in 1..MaxSubmits : PostOk(i)

SpecTwoSubmits == Init /\ [][NextTwoSubmits]_vars

-----------------------------------------------------------------------------
(* The dispatch under the scheduling of the browser: the same handlers on  *)
(* one catalog and one branch.  A settled promise's continuation is queued *)
(* and runs once no alert box blocks the script, however often boxes are   *)
(* opened and closed in between (strong fairness); the operator closes an  *)
(* open box (weak fairness).  That the encoding and the POST settle at all *)
(* is the assumption of the fairness on their two outcomes.                *)

\* the submit button pressed once the dispatch before has settled
SubmitWhenSettled == pending = <<>> /\ HandleSubmit

\* the encoding of the call in flight settles; its POST settles
EncodeSettles == EncodeDone(1) \/ EncodeFail(1)
PostSettles == PostOk(1) \/ PostFail(1)

NextSettle ==
    \/ DismissAlert
    \/ LoadAllDataOk(CatalogTwoCategories)
    \/ SetSelectedBranch(Bkk)
    \/ \E n \in Notes : SetReportNote(n)
    \/ SetIsDefectMode
    \/ \E id \in IdsOf(CatalogTwoCategories.items) : HandleToggleCheck(id)
    \/ HandleFileSelect(<<Photo>>)
    \/ SubmitWhenSettled
    \/ EncodeSettles
    \/ PostSettles

SpecSettle ==
    /\ Init
    /\ [][NextSettle]_vars
    /\ WF_vars(DismissAlert)
    /\ SF_vars(EncodeSettles)
    /\ SF_vars(PostSettles)

-----------------------------------------------------------------------------
(* The progress bar over longer lists: the same handlers on a catalog with *)
(* eight items of one branch, three in one category and five in another.   *)

ItemNo(d) == <<"I", "t", d>>

CatalogEightItems ==
    [items    |-> << InventoryItem(Bkk, "RE-Brand", ItemNo("1"), 1),
                     InventoryItem(Bkk, "RE-Brand", ItemNo("2"), 1),
                     InventoryItem(Bkk, "RE-Brand", ItemNo("3"), 1),
                     InventoryItem(Bkk, "RE-System", ItemNo("4"), 1),
                     InventoryItem(Bkk, "RE-System", ItemNo("5"), 1),
                     InventoryItem(Bkk, "RE-System", ItemNo("6"), 1),
                     InventoryItem(Bkk, "RE-System", ItemNo("7"), 1),
                     InventoryItem(Bkk, "RE-System", ItemNo("8"), 1) >>,
     branches |-> << Bkk >>]

NextProgress ==
    \/ LoadAllDataOk(CatalogEightItems)
    \/ \E b \in {<<>>, Bkk} : SetSelectedBranch(b)
    \/ \E c \in CategoryOptions : SetSelectedCategory(c)
    \/ \E id \in IdsOf(CatalogEightItems.items) : HandleToggleCheck(id)

SpecProgress == Init /\ [][NextProgress]_vars

-----------------------------------------------------------------------------
(* The progress bar over long lists: one branch with up to MaxItems items, *)
(* most of them checked in an earlier session.                             *)

\* the longest list
MaxItems == 201

\* the items of the branch from the a-th to the b-th
RECURSIVE ItemsFromTo(_, _)
ItemsFromTo(a, b) ==
    IF a > b THEN <<>>
    ELSE IF a = b THEN <<InventoryItem(Bkk, "RE-Brand", ItemNo(ToString(a)), 1)>>
    ELSE ItemsFromTo(a, (a + b) \div 2) \o ItemsFromTo((a + b) \div 2 + 1, b)

\* the first n items of the branch
ItemsUpTo(n) == ItemsFromTo(1, n)

\* the catalog of one branch with n items
CatalogOfLength(n) == [items |-> ItemsUpTo(n), branches |-> << Bkk >>]

\* the lengths of the lists: the shortest and the longest
ListLengths == {n \in 1..MaxItems : n <= 3 \/ n >= MaxItems - 2}

\* the catalogs a load may produce
LongCatalogs == {CatalogOfLength(n) : n \in ListLengths}

\* how many items, from the first one on, the earlier session left checked
SavedCounts == {0, 1, MaxItems - 3, MaxItems - 2}

\* the keys the earlier session may have left in localStorage
SavedStores == {{StorageKey(id) : id \in IdsOf(ItemsUpTo(k))} : k \in SavedCounts}

InitLongList ==
    /\ \E store \in SavedStores : MountedWith(store)
    /\ sheets = <<>>
    /\ ResolverIdle
    /\ HistoryIdle /\ reportStore = <<>>
    /\ OrderIdle

\* the rows toggled are the last two of the list
NextLongList ==
    \/ \E catalog \in LongCatalogs : LoadAllDataOk(catalog)
    \/ \E b \in {<<>>, Bkk} : SetSelectedBranch(b)
    \/ \E c \in CategoryOptions : SetSelectedCategory(c)
    \/ \E r \in {Len(database) - 1, Len(database)} \cap (1..Len(database)) :
          HandleToggleCheck(database[r].id)

SpecLongList == InitLongList /\ [][NextLongList]_vars

-----------------------------------------------------------------------------
(* loadAllData (lines 75-106) on the texts the fetches answer with *)

\* the characters of the branch labels of the sheets below and of the item
\* names of the catalogs, in the order of their UTF-16 code units; no label
\* has one that is the start of another one
CodeOrder == <<" ", "B", "C", "Head Office", "K", "POP", "P", "_",
               "b", "e", "k", "n", "p", "u", "x">>
CodeOf(c) == CHOOSE k \in 1..Len(CodeOrder) : CodeOrder[k] = c

\* a < b as sort() without a comparator orders strings
RECURSIVE Precedes(_, _)
Precedes(a, b) ==
    IF b = <<>> THEN FALSE
    ELSE IF a = <<>> THEN TRUE
    ELSE IF Head(a) = Head(b) THEN Precedes(Tail(a), Tail(b))
    ELSE CodeOf(Head(a)) < CodeOf(Head(b))

\* Array.from(set).sort()
RECURSIVE Sorted(_)
Sorted(set) ==
    IF set = {} THEN <<>>
    ELSE LET first == CHOOSE a \in set : \A b \in set \ {a} : Precedes(a, b)
         IN  <<first>> \o Sorted(set \ {first})

\* s.length, a word that stands as one character counted with its letters
RECURSIVE TextLength(_)
TextLength(s) ==
    IF s = <<>> THEN 0
    ELSE (CASE Head(s) = "Head Office" -> 11
            [] Head(s) = "Tracking" -> 8
            [] Head(s) = "Total" -> 5
            [] Head(s) = "List" -> 4
            [] Head(s) \in {"No.", "POP"} -> 3
            [] OTHER -> 1)
         + TextLength(Tail(s))

\* the filter of line 97
KeepsBranch(b) == TextLength(b) > 2 /\ ~Includes(b, "Total") /\ ~Includes(b, "POP")

\* sortedBranches (lines 95-97)
SortedBranches(allBranches) == SelectSeq(Sorted(allBranches), KeepsBranch)

\* allData and allBranches after the three parseData calls (lines 83-93)
ParseAll(texts) ==
    LET brand == ParseCSV(texts[1], "RE-Brand", {})
        system == ParseCSV(texts[2], "RE-System", brand.branchSet)
        special == ParseCSV(texts[3], "Special-POP", system.branchSet)
    IN  [items |-> brand.items \o system.items \o special.items,
         branchSet |-> special.branchSet]

\* lines 77-101: the three fetches answered; their texts are parsed and merged
LoadAllData ==
    /\ Idle
    /\ loadingStatus = "loading"
    /\ database' = ParseAll(sheets).items
    /\ branches' = SortedBranches(ParseAll(sheets).branchSet)
    /\ loadingStatus' = "ready"
    /\ UNCHANGED <<selectedBranch, selectedCategory, selectedDate, checkedItems,
                   localStorage, reportNote, selectedFiles, isDefectMode,
                   isSubmitting, pending, alert>>
    /\ UNCHANGED others

(* The sheets the fetches may answer with *)

\* pieces.join(sep)
RECURSIVE Join(_, _)
Join(pieces, sep) ==
    IF pieces = <<>> THEN <<>>
    ELSE IF Len(pieces) = 1 THEN pieces[1]
    ELSE pieces[1] \o <<sep>> \o Join(Tail(pieces), sep)

Quoted(s) == <<"\"">> \o s \o <<"\"">>

\* header lines: plain; with quoted and padded cells and a marker inside a
\* label; with labels in the first two columns; without the anchor; with four
\* columns
HeaderPlain ==
    Join(<< <<"No.">>, <<"List">>, <<"Head Office">>, Bkk, <<"Total">> >>, ",")
HeaderQuoted ==
    Join(<< Quoted(<<"No.">>), Quoted(<<"List">>), Quoted(<<"Head Office">>),
            <<" ">> \o Cnx \o <<" ">>, Bkk \o <<" ", "Total">> >>, ",")
HeaderOddLabels ==
    Join(<< <<"K", "b">>, <<"POP">>, <<"Head Office">>, Bkk, Cnx >>, ",")
HeaderNoAnchor ==
    Join(<< <<"No.">>, <<"List">>, <<"H", "O">>, Bkk, <<"Total">> >>, ",")
HeaderFourColumns ==
    Join(<< <<"No.">>, <<"List">>, <<"Head Office">>, Bkk >>, ",")

\* what precedes the first data row: a header line, or a title line and a
\* header line
SheetHeads ==
    {HeaderPlain, HeaderQuoted, HeaderOddLabels, HeaderNoAnchor, HeaderFourColumns,
     <<"\n", "S", "\n">> \o HeaderPlain}

\* the cells of a data row: its number, its item name, the quantity of the
\* head office, the quantity of a branch
NumberCells == {<<"1">>, <<>>}
NameCells == {Pen, <<>>, <<" ">>, Quoted(Cup), <<"Total", " ">> \o Pen, <<"Tracking">>}
HeadOfficeCells == {<<"0">>, <<"1", "2">>, <<>>}
QtyCells ==
    {<<>>, <<"0">>, <<"5">>, <<"-", "2">>, <<"a">>, <<"3", "a">>,
     <<" ", "3", " ">>, Quoted(<<"4">>)}

DataRows ==
    {Join(<<number, name, headOffice, qty, <<"9">> >>, ",") :
        number \in NumberCells, name \in NameCells,
        headOffice \in HeadOfficeCells, qty \in QtyCells}

\* what follows the first data row: nothing, a second row, a row of four cells
SheetTails ==
    {<<>>,
     <<"\n">> \o Join(<< <<"2">>, Cup, <<"1">>, <<"1">>, <<"2">> >>, ","),
     <<"\n">> \o Join(<< <<"3">>, Cup, <<"4">>, <<"4">> >>, ",") \o <<"\n">>}

BrandSheets ==
    {<<>>, <<" ">>}
    \cup {head \o <<"\n">> \o row \o tail :
             head \in SheetHeads, row \in DataRows, tail \in SheetTails}

SystemSheets ==
    {<<>>,
     Join(<< Join(<< <<"No.">>, <<"List">>, <<"Head Office">>, Cnx, <<"Total">> >>, ","),
             Join(<< <<"1">>, Cup, <<"0">>, <<"2">>, <<"2">> >>, ",") >>, "\n")}

InitIngest ==
    /\ Mounted
    /\ sheets \in {<<brand, system, <<>> >> :
                      brand \in BrandSheets, system \in SystemSheets}
    /\ ResolverIdle
    /\ HistoryIdle /\ reportStore = <<>>
    /\ OrderIdle

NextIngest ==
    \/ LoadAllData
    \/ \E failed \in FailedFetches : LoadAllDataFail(failed)

SpecIngest == InitIngest /\ [][NextIngest]_vars

-----------------------------------------------------------------------------
(* The branch resolver (src/unnamed/part_000, lines 234-261).  A label is  *)
(* a tuple of characters; ThaiKoKai stands for a character of the Thai     *)
(* block (U+0E01).                                                         *)

\* labels are up to MaxLabel characters long
MaxLabel == 2
\* the canonical set has up to MaxCanonical members
MaxCanonical == 2

ThaiKoKai == "ko kai"
\* the Kelvin sign (U+212A), a letter outside ASCII whose lower-case form is
\* the ASCII letter k
KelvinSign == "kelvin sign"

UpperCase == <<"A", "B", "C", "D", "E", "F", "G", "H", "I", "J", "K", "L", "M",
               "N", "O", "P", "Q", "R", "S", "T", "U", "V", "W", "X", "Y", "Z">>
LowerCase == <<"a", "b", "c", "d", "e", "f", "g", "h", "i", "j", "k", "l", "m",
               "n", "o", "p", "q", "r", "s", "t", "u", "v", "w", "x", "y", "z">>

\* toLowerCase() of one character, by the Unicode case mapping: A-Z and the
\* Kelvin sign have an ASCII lower-case form; the other characters of the
\* model have none but themselves.  (U+0130, whose lower-case form is i and
\* a combining dot, is not among the characters of the model.)
ToLowerCase(c) ==
    IF \E v \in 1..Len(UpperCase) : UpperCase[v] = c
    THEN LowerCase[CHOOSE v \in 1..Len(UpperCase) : UpperCase[v] = c]
    ELSE IF c = KelvinSign THEN "k"
    ELSE c

\* the characters the replace of /[^a-z0-9\u0E00-\u0E7F]/g leaves
IsKeyCharacter(c) ==
    \/ \E v \in 1..Len(LowerCase) : LowerCase[v] = c
    \/ IsDigit(c)
    \/ c = ThaiKoKai

\* NormalizeBranchKey without the toLowerCase() of line 239
NormalizeBranchKeyKeepsCase(name) == SelectSeq(name, IsKeyCharacter)

\* normalizeBranchKey (lines 237-240)
NormalizeBranchKey(name) ==
    SelectSeq([i \in 1..Len(name) |-> ToLowerCase(name[i])], IsKeyCharacter)

\* null (lines 250, 260)
Null == [found |-> FALSE, branch |-> <<>>]

\* ResolveCanonicalBranch returning the last member with the key
ResolveLastCanonicalBranch(raw, canonicals) ==
    IF raw = <<>> THEN Null
    ELSE LET rawKey == NormalizeBranchKey(raw)
             hits == {i \in 1..Len(canonicals) :
                         NormalizeBranchKey(canonicals[i]) = rawKey}
         IN  IF hits = {} THEN Null
             ELSE [found |-> TRUE,
                   branch |-> canonicals[CHOOSE i \in hits : \A j \in hits : j <= i]]

\* resolveCanonicalBranch (lines 246-261): the loop returns at its first hit
ResolveCanonicalBranch(raw, canonicals) ==
    IF raw = <<>> THEN Null
    ELSE LET rawKey == NormalizeBranchKey(raw)
             hits == {i \in 1..Len(canonicals) :
                         NormalizeBranchKey(canonicals[i]) = rawKey}
         IN  IF hits = {} THEN Null
             ELSE [found |-> TRUE,
                   branch |-> canonicals[CHOOSE i \in hits : \A j \in hits : i <= j]]

\* a call of resolveCanonicalBranch returns
ResolveCanonicalBranchReturns ==
    /\ resolved = <<>>
    /\ resolved' = <<ResolveCanonicalBranch(rawBranch, canonicalBranches)>>
    /\ UNCHANGED <<database, branches, loadingStatus, selectedBranch,
                   selectedCategory, selectedDate, checkedItems, localStorage,
                   reportNote, selectedFiles, isDefectMode, isSubmitting,
                   pending, alert, sheets, rawBranch, canonicalBranches>>
    /\ UNCHANGED <<history, order>>

\* the characters of the raw labels, and the raw labels
LabelCharacters == {"B", "b", "k", " ", "1", ThaiKoKai, KelvinSign}
Labels == UNION {[1..n -> LabelCharacters] : n \in 0..MaxLabel}

\* the labels the canonical set is made of: several with one key, the empty
\* label, a label of white space
CanonicalLabels ==
    {<<"B", "k">>, <<"b", "k">>, <<"B">>, <<"b", " ">>, <<" ">>, <<>>,
     <<ThaiKoKai, "1">>}

\* a Set in its iteration order: no member twice
CanonicalSets ==
    {set \in UNION {[1..n -> CanonicalLabels] : n \in 0..MaxCanonical} :
        \A i, j \in 1..Len(set) : set[i] = set[j] => i = j}

InitResolve ==
    /\ Mounted
    /\ sheets = <<>>
    /\ rawBranch \in Labels
    /\ canonicalBranches \in CanonicalSets
    /\ resolved = <<>>
    /\ HistoryIdle /\ reportStore = <<>>
    /\ OrderIdle

NextResolve == ResolveCanonicalBranchReturns

SpecResolve == InitResolve /\ [][NextResolve]_vars

-----------------------------------------------------------------------------
(* The checklist on sheets whose branch labels drifted: the label of one   *)
(* branch written in another case, or with a blank or an underscore inside, *)
(* in another column or in the sheet of another category.                  *)

Bkk_lower == <<"b", "k", "k">>
B_k == <<"B", "_", "k">>
Bsp_k == <<"B", " ", "k">>

\* the labels of the branch columns
DriftedLabels == {Bkk, Bkk_lower, B_k, Bsp_k, Cnx}

\* a sheet with the given branch columns and one row, which names the item
\* and holds the quantity for every branch
SheetOf(labels, itemName, qty) ==
    Join(<< Join(<< <<"No.">>, <<"List">>, <<"Head Office">> >> \o labels
                    \o << <<"Total">> >>, ","),
            Join(<< <<"1">>, itemName, <<"0">> >>
                    \o [c \in 1..Len(labels) |-> qty] \o << <<"9">> >>, ",") >>,
         "\n")

InitLabels ==
    /\ Mounted
    /\ sheets \in {<< SheetOf(<<first, second>>, Pen, <<"2">>),
                       SheetOf(<<third>>, Pen, <<"1">>), <<>> >> :
                      first \in DriftedLabels, second \in DriftedLabels,
                      third \in DriftedLabels}
    /\ ResolverIdle
    /\ HistoryIdle /\ reportStore = <<>>
    /\ OrderIdle

NextLabels ==
    \/ LoadAllData
    \/ \E b \in {<<>>} \cup DriftedLabels : SetSelectedBranch(b)
    \/ \E c \in CategoryOptions : SetSelectedCategory(c)
    \/ \E id \in IdsOf(database) : HandleToggleCheck(id)

SpecLabels == InitLabels /\ [][NextLabels]_vars

-----------------------------------------------------------------------------
(* The HistoryPanel component (src/unnamed/part_000, lines 22-232): the    *)
(* search of the external report store for the records of a branch and a   *)
(* date.  The search button is disabled while a search is in flight (line  *)
(* 117); the branch and the date controls are not.                         *)

\* the state of the PopTracking component but for the alert box
popTracking == <<database, branches, loadingStatus, selectedBranch,
                 selectedCategory, selectedDate, checkedItems, localStorage,
                 reportNote, selectedFiles, isDefectMode, isSubmitting, pending>>

\* the state of the sheets and of the resolver
resolver == <<sheets, rawBranch, canonicalBranches, resolved>>

\* records the store may hold for one branch and date
MaxRecords == 2

AlertSelectBranchAndDate == "select branch and date before searching"  \* line 37
AlertNoRecord == "no record found"                                     \* line 50
AlertHistoryError == "error fetching history"                          \* line 54

\* the branches prop (line 18)
HistoryBranches == <<Bkk, Cnx>>

\* a HistoryRecord (lines 7-15), by its branch, date and tracking number
HistoryRecord(branch, date, trackingNo) ==
    [branch |-> branch, date |-> date, trackingNo |-> trackingNo]

\* what the store answers to action=getHistory (line 43): its records of the
\* branch and the date, in the order it holds them
QueryResult(branch, date) ==
    SelectSeq(reportStore, LAMBDA r : r.branch = branch /\ r.date = date)

\* the answer read as JSON: null, or a list of records
JsonNull == [isNull |-> TRUE, list |-> <<>>]
JsonList(list) == [isNull |-> FALSE, list |-> list]

SetHistoryBranch(b) ==
    /\ Idle
    /\ b \in {<<>>} \cup {HistoryBranches[i] : i \in 1..Len(HistoryBranches)}
    /\ historyBranch' = b
    /\ UNCHANGED <<historyDate, historyData, isHistoryLoading, historyQuery,
                   reportStore, alert>>
    /\ UNCHANGED <<popTracking, resolver, order>>

SetHistoryDate(d) ==
    /\ Idle
    /\ historyDate' = d
    /\ UNCHANGED <<historyBranch, historyData, isHistoryLoading, historyQuery,
                   reportStore, alert>>
    /\ UNCHANGED <<popTracking, resolver, order>>

\* lines 36-44: the guard, the two setters, the fetch starts
HandleSearchHistory ==
    /\ Idle
    /\ ~isHistoryLoading
    /\ IF historyBranch = <<>> \/ historyDate = ""
       THEN /\ alert' = AlertSelectBranchAndDate
            /\ UNCHANGED <<historyData, isHistoryLoading, historyQuery>>
       ELSE /\ isHistoryLoading' = TRUE
            /\ historyData' = <<>>
            /\ historyQuery' = <<[phase |-> "fetching", branch |-> historyBranch,
                                  date |-> historyDate, data |-> JsonNull]>>
            /\ UNCHANGED alert
    /\ UNCHANGED <<historyBranch, historyDate, reportStore>>
    /\ UNCHANGED <<popTracking, resolver, order>>

\* line 44: the fetch resolved with the store's answer, or with null for it
FetchResolved(answersNull) ==
    /\ Idle
    /\ historyQuery # <<>>
    /\ historyQuery[1].phase = "fetching"
    /\ historyQuery' =
          <<[historyQuery[1] EXCEPT
                !.phase = "reading",
                !.data = IF answersNull THEN JsonNull
                         ELSE JsonList(QueryResult(historyQuery[1].branch,
                                                   historyQuery[1].date))]>>
    /\ UNCHANGED <<historyBranch, historyDate, historyData, isHistoryLoading,
                   reportStore, alert>>
    /\ UNCHANGED <<popTracking, resolver, order>>

\* JsonResolved that surfaces the first record of the list
JsonResolvedSurfacesFirst ==
    /\ Idle
    /\ historyQuery # <<>>
    /\ historyQuery[1].phase = "reading"
    /\ LET data == historyQuery[1].data
       IN  IF ~data.isNull /\ Len(data.list) > 0
           THEN /\ historyData' = <<data.list[1]>>
                /\ UNCHANGED alert
           ELSE /\ alert' = AlertNoRecord
                /\ UNCHANGED historyData
    /\ isHistoryLoading' = FALSE
    /\ historyQuery' = <<>>
    /\ UNCHANGED <<historyBranch, historyDate, reportStore>>
    /\ UNCHANGED <<popTracking, resolver, order>>

\* lines 45-51 and 55-57: res.json() resolved; the last record is surfaced,
\* or the alert is shown; finally
JsonResolved ==
    /\ Idle
    /\ historyQuery # <<>>
    /\ historyQuery[1].phase = "reading"
    /\ LET data == historyQuery[1].data
       IN  IF ~data.isNull /\ Len(data.list) > 0
           THEN /\ historyData' = <<data.list[Len(data.list)]>>
                /\ UNCHANGED alert
           ELSE /\ alert' = AlertNoRecord
                /\ UNCHANGED historyData
    /\ isHistoryLoading' = FALSE
    /\ historyQuery' = <<>>
    /\ UNCHANGED <<historyBranch, historyDate, reportStore>>
    /\ UNCHANGED <<popTracking, resolver, order>>

\* lines 52-57: the fetch or res.json() rejected; catch, then finally
SearchFailed ==
    /\ Idle
    /\ historyQuery # <<>>
    /\ alert' = AlertHistoryError
    /\ isHistoryLoading' = FALSE
    /\ historyQuery' = <<>>
    /\ UNCHANGED <<historyBranch, historyDate, historyData, reportStore>>
    /\ UNCHANGED <<popTracking, resolver, order>>

\* the tracking numbers of the records in the store
TrackingNos == {"TH01", "TH02"}

\* the stores: up to MaxRecords records for each branch, of today
StoredRecords ==
    {HistoryRecord(HistoryBranches[i], Today, t) :
        i \in 1..Len(HistoryBranches), t \in TrackingNos}
ReportStores == UNION {[1..n -> StoredRecords] : n \in 0..MaxRecords}

InitHistory ==
    /\ Mounted
    /\ sheets = <<>>
    /\ ResolverIdle
    /\ HistoryIdle
    /\ reportStore \in ReportStores
    /\ OrderIdle

NextHistory ==
    \/ DismissAlert
    \/ \E b \in {<<>>, Bkk, Cnx} : SetHistoryBranch(b)
    \/ \E d \in Dates : SetHistoryDate(d)
    \/ HandleSearchHistory
    \/ \E answersNull \in BOOLEAN : FetchResolved(answersNull)
    \/ JsonResolved
    \/ SearchFailed

SpecHistory == InitHistory /\ [][NextHistory]_vars

-----------------------------------------------------------------------------
(* The OrderPanel component (src/Component/OrderPanel.tsx): quantities     *)
(* typed against the item names of one category, and their export as a     *)
(* spreadsheet file.  Its database and branches props are the catalog of   *)
(* the component that renders it: empty until the load has completed.  Its *)
(* alert() boxes block the page as the others do.  The date row of the     *)
(* file (line 50) is left out.                                             *)

\* files the panel may save
MaxExports == 1

AlertSelectBranchBeforeExport == "select a branch before the export"  \* line 38
AlertNoQuantity == "enter the quantity of one item at least"          \* line 43

\* the options of the category control (lines 113-116)
OrderCategories == <<"RE-Brand", "RE-System", "Special-POP", "Equipment-Order">>

\* uniqueItems (lines 18-26): the item names of the category, each once, sorted
UniqueItems(db, category) ==
    Sorted({db[r].item : r \in {q \in 1..Len(db) : db[q].category = category}})

\* orderQuantities[item] || 0 (lines 41, 132)
QtyOf(quantities, item) ==
    IF \E p \in quantities : p[1] = item
    THEN (CHOOSE p \in quantities : p[1] = item)[2]
    ELSE 0

\* line 96
SetOrderBranch(b) ==
    /\ Idle
    /\ b \in {<<>>} \cup {branches[i] : i \in 1..Len(branches)}
    /\ orderBranch' = b
    /\ UNCHANGED <<orderCategory, orderQuantities, orderSaved, alert>>
    /\ UNCHANGED <<popTracking, resolver, history>>

\* SetOrderCategory without the reset of line 109
SetOrderCategoryKeepsQuantities(c) ==
    /\ Idle
    /\ c \in {OrderCategories[i] : i \in 1..Len(OrderCategories)}
    /\ c # orderCategory
    /\ orderCategory' = c
    /\ UNCHANGED <<orderBranch, orderQuantities, orderSaved, alert>>
    /\ UNCHANGED <<popTracking, resolver, history>>

\* lines 107-110: another option of the category control is chosen
SetOrderCategory(c) ==
    /\ Idle
    /\ c \in {OrderCategories[i] : i \in 1..Len(OrderCategories)}
    /\ c # orderCategory
    /\ orderCategory' = c
    /\ orderQuantities' = {}
    /\ UNCHANGED <<orderBranch, orderSaved, alert>>
    /\ UNCHANGED <<popTracking, resolver, history>>

\* lines 29-34, 142: text is typed into the quantity field of a row; the
\* quantity is parseInt(e.target.value) || 0
HandleQtyChange(item, text) ==
    /\ Idle
    /\ \E i \in 1..Len(UniqueItems(database, orderCategory)) :
          UniqueItems(database, orderCategory)[i] = item
    /\ LET parsed == ParseInt(text)
           qty == IF parsed.isNaN THEN 0 ELSE parsed.n
       IN  orderQuantities' =
              {p \in orderQuantities : p[1] # item} \cup {<<item, qty>>}
    /\ UNCHANGED <<orderBranch, orderCategory, orderSaved, alert>>
    /\ UNCHANGED <<popTracking, resolver, history>>

\* dataRows (lines 58-62)
RECURSIVE OrderRows(_)
OrderRows(items) ==
    IF items = <<>> THEN <<>>
    ELSE <<<<Head(items), QtyOf(orderQuantities, Head(items)), "Pending">>>>
         \o OrderRows(Tail(items))

\* lines 37-81: the two refusals, or the file saved under the name of the
\* branch and the category
HandleExportExcel ==
    /\ Idle
    /\ Len(orderSaved) < MaxExports
    /\ LET itemsToOrder ==
               SelectSeq(UniqueItems(database, orderCategory),
                         LAMBDA item : QtyOf(orderQuantities, item) > 0)
       IN  IF orderBranch = <<>>
           THEN alert' = AlertSelectBranchBeforeExport /\ UNCHANGED orderSaved
           ELSE IF Len(itemsToOrder) = 0
           THEN alert' = AlertNoQuantity /\ UNCHANGED orderSaved
           ELSE /\ orderSaved' = Append(orderSaved,
                                       [branch |-> orderBranch,
                                        category |-> orderCategory,
                                        rows |-> OrderRows(itemsToOrder)])
                /\ UNCHANGED alert
    /\ UNCHANGED <<orderBranch, orderCategory, orderQuantities>>
    /\ UNCHANGED <<popTracking, resolver, history>>

\* the 'Total Items' count (line 165)
TotalItems == Cardinality({p \in orderQuantities : p[2] > 0})

\* two branches and two categories: an item name of two branches, and one of
\* two categories
CatalogOrder ==
    [items    |-> << InventoryItem(Bkk, "RE-Brand", Pen, 2),
                     InventoryItem(Bkk, "RE-Brand", Cup, 1),
                     InventoryItem(Cnx, "RE-Brand", Pen, 3),
                     InventoryItem(Bkk, "RE-System", Cup, 1) >>,
     branches |-> << Bkk, Cnx >>]

\* what may be typed into a quantity field
TypedQuantities == {<<>>, <<"0">>, <<"1">>, <<"2">>, <<"-", "1">>}

NextOrder ==
    \/ DismissAlert
    \/ \E catalog \in {CatalogOrder, CatalogTwoCategories} : LoadAllDataOk(catalog)
    \/ \E b \in {<<>>, Bkk, Cnx} : SetOrderBranch(b)
    \/ \E i \in 1..Len(OrderCategories) : SetOrderCategory(OrderCategories[i])
    \/ \E item \in {Pen, Cup}, text \in TypedQuantities : HandleQtyChange(item, text)
    \/ HandleExportExcel

SpecOrder == Init /\ [][NextOrder]_vars

-----------------------------------------------------------------------------
(* Terms of the properties below, stated on the state alone *)

\* the catalog rows of a branch, over all categories
RowsOf(branch) == {r \in 1..Len(database) : database[r].branch = branch}

\* some row of the branch is not checked in the given check state
AnyUncheckedIn(branch, checked) ==
    \E r \in RowsOf(branch) : database[r].id \notin checked

\* the step takes a submission into flight
SubmitAccepted == isSubmitting' /\ Len(pending') = Len(pending) + 1

\* the step is a handleSubmit call with a branch and a date selected
SubmitWithBranchAndDate ==
    HandleSubmit /\ selectedBranch # <<>> /\ selectedDate # ""

\* the evidence rule of the mode the current state is in
EvidenceGiven ==
    IF AnyUncheckedIn(selectedBranch, checkedItems)
    THEN reportNote # "" \/ Len(selectedFiles) > 0
    ELSE IF isDefectMode
         THEN reportNote # "" /\ Len(selectedFiles) > 0
         ELSE Len(selectedFiles) > 0

\* the suspended calls whose Report has been POSTed
Dispatched == {i \in 1..Len(pending) : pending[i].phase = "posting"}

\* the mode of the Report of a suspended call
CompleteMode(c) == ~AnyUncheckedIn(c.branch, c.checked) /\ ~c.defect

-----------------------------------------------------------------------------
(* C1: the check state in memory and the durable store agree: an id is     *)
(* checked in memory exactly when the store holds 'pop_check_' + id.       *)
C1_MemoryMatchesStore ==
    \A id \in ItemIds : (id \in checkedItems) <=> (StorageKey(id) \in localStorage)

(* C2: the cleanup after a successful dispatch for a branch leaves no item *)
(* of that branch checked, in memory or in the store, and leaves the       *)
(* checked state of every item of any other branch, in memory and in the   *)
(* store, as it was immediately before.                                    *)
C2_CleanupClearsOnlyTheBranch ==
    [][\A i \in 1..MaxInflight : PostOk(i) =>
          \A r \in 1..Len(database) :
             LET id == database[r].id
             IN  IF database[r].branch = pending[i].branch
                 THEN id \notin checkedItems' /\ StorageKey(id) \notin localStorage'
                 ELSE /\ (id \in checkedItems') <=> (id \in checkedItems)
                      /\ (StorageKey(id) \in localStorage')
                            <=> (StorageKey(id) \in localStorage)]_vars

(* C3: a submission that passed validation changes none of the check       *)
(* state, the store, the note, the attachments and the defect flag, when   *)
(* it starts, while it is in flight, and when its encoding or its POST     *)
(* fails.                                                                  *)
C3_FailedDispatchKeepsReport ==
    [][(\/ HandleSubmit
        \/ \E i \in 1..MaxInflight : EncodeDone(i) \/ EncodeFail(i) \/ PostFail(i))
       => UNCHANGED <<checkedItems, localStorage, reportNote, selectedFiles,
                      isDefectMode>>]_vars

\* a dispatch has just failed and the report the operator entered is there
C3_Witness ==
    /\ alert = AlertDispatchFailed
    /\ reportNote # "" /\ Len(selectedFiles) > 0 /\ isDefectMode
    /\ checkedItems # {}

(* C4: a submit that fails a precondition (no branch, no date, or the      *)
(* evidence rule of its mode) dispatches nothing and changes no state.     *)
C4_RefusedSubmitChangesNothing ==
    [][(HandleSubmit
        /\ ~(selectedBranch # <<>> /\ selectedDate # "" /\ EvidenceGiven))
       => UNCHANGED <<checkedItems, localStorage, reportNote, selectedFiles,
                      isDefectMode, isSubmitting, pending, database, branches,
                      loadingStatus, selectedBranch, selectedCategory,
                      selectedDate>>]_vars

\* a submit has just been refused for the missing date, with evidence entered
C4_Witness ==
    /\ alert = AlertNoDate
    /\ reportNote # "" /\ Len(selectedFiles) > 0
    /\ pending = <<>>

(* C5: Missing-Items mode: with branch and date set and some item of the   *)
(* branch unchecked, whatever the defect flag, a submit is accepted        *)
(* exactly when the note is non-empty or there is an attachment.           *)
C5_MissingItemsRule ==
    [][(SubmitWithBranchAndDate /\ AnyUncheckedIn(selectedBranch, checkedItems))
       => (SubmitAccepted <=> (reportNote # "" \/ Len(selectedFiles) > 0))]_vars

\* a report with an item missing is in flight on a note alone, defect flag set
C5_Witness ==
    \E i \in 1..Len(pending) :
       /\ AnyUncheckedIn(pending[i].branch, pending[i].checked)
       /\ pending[i].note # "" /\ pending[i].files = <<>>
       /\ pending[i].defect

(* C6: Complete mode: with branch and date set, every item of the branch   *)
(* checked and the defect flag off, a submit is accepted exactly when      *)
(* there is an attachment, whatever the note.                              *)
C6_CompleteRule ==
    [][(SubmitWithBranchAndDate /\ ~AnyUncheckedIn(selectedBranch, checkedItems)
        /\ ~isDefectMode)
       => (SubmitAccepted <=> Len(selectedFiles) > 0)]_vars

\* a complete report is in flight with a picture and no note
C6_Witness ==
    \E i \in 1..Len(pending) :
       /\ CompleteMode(pending[i])
       /\ pending[i].note = "" /\ Len(pending[i].files) > 0

(* C7: Defect-Report mode: with branch and date set, every item of the     *)
(* branch checked and the defect flag on, a submit is accepted exactly     *)
(* when the note is non-empty and there is an attachment.                  *)
C7_DefectRule ==
    [][(SubmitWithBranchAndDate /\ ~AnyUncheckedIn(selectedBranch, checkedItems)
        /\ isDefectMode)
       => (SubmitAccepted <=> (reportNote # "" /\ Len(selectedFiles) > 0))]_vars

\* a defect report is in flight with a note and a picture
C7_Witness ==
    \E i \in 1..Len(pending) :
       /\ ~AnyUncheckedIn(pending[i].branch, pending[i].checked)
       /\ pending[i].defect
       /\ pending[i].note # "" /\ Len(pending[i].files) > 0

(* C8, as stated: the note of a dispatched Report is the fixed marker      *)
(* exactly when the Report is in Complete mode, and is the note the        *)
(* operator entered in the other two modes.                                *)
C8_MarkerExactlyWhenComplete ==
    \A i \in Dispatched :
       /\ (pending[i].payload.note = ReceivedAll) <=> CompleteMode(pending[i])
       /\ ~CompleteMode(pending[i]) => pending[i].payload.note = pending[i].note

(* C8, amended: the note of a dispatched Report is the fixed marker        *)
(* whenever the Report is in Complete mode, whatever the operator          *)
(* entered, and is the note the operator entered in the other two modes    *)
(* (where it is the marker only if the operator typed just that).          *)
C8_NoteOfReport ==
    \A i \in Dispatched :
       /\ CompleteMode(pending[i]) => pending[i].payload.note = ReceivedAll
       /\ ~CompleteMode(pending[i]) => pending[i].payload.note = pending[i].note

\* a complete Report was dispatched for which the operator entered no note
C8_Witness ==
    \E i \in Dispatched :
       CompleteMode(pending[i]) /\ pending[i].note = ""
          /\ pending[i].payload.note = ReceivedAll

\* the lines of a missingItems text: its pieces between the "\n"
RECURSIVE LinesOf(_)
LinesOf(text) ==
    IF \A k \in 1..Len(text) : text[k] # "\n" THEN <<text>>
    ELSE LET k == CHOOSE j \in 1..Len(text) :
                     text[j] = "\n" /\ \A h \in 1..(j - 1) : text[h] # "\n"
         IN  <<SubSeq(text, 1, k - 1)>> \o LinesOf(SubSeq(text, k + 1, Len(text)))

\* the rows of a branch unchecked in a check state, in catalog order
UncheckedRows(branch, checked) ==
    LET rows == {r \in RowsOf(branch) : database[r].id \notin checked}
        Nth[n \in 1..Cardinality(rows)] ==
            CHOOSE r \in rows : Cardinality({q \in rows : q < r}) = n - 1
    IN  [n \in 1..Cardinality(rows) |-> Nth[n]]

(* C9: missingItems of a dispatched Report is the sentinel exactly when    *)
(* no item of the Report's branch, over all categories, is unchecked;      *)
(* otherwise it has one line for each unchecked item of the branch, with   *)
(* the item's name and quantity, in catalog order, and no other line.      *)
C9_MissingItemsOfReport ==
    \A i \in Dispatched :
       LET c == pending[i]
           rows == UncheckedRows(c.branch, c.checked)
           lines == LinesOf(c.payload.missingItems)
       IN  /\ (c.payload.missingItems = <<"-">>) <=> (Len(rows) = 0)
           /\ Len(rows) > 0 =>
                 /\ Len(lines) = Len(rows)
                 /\ \A n \in 1..Len(rows) :
                       lines[n] = <<" ">> \o database[rows[n]].item
                                  \o <<" (qty: ", ToString(database[rows[n]].qty), ")">>

\* a Report was dispatched, with the category filter set, that lists the
\* one unchecked item of a branch of which another item is checked
C9_Witness ==
    \E i \in Dispatched :
       /\ selectedCategory # "all"
       /\ Len(UncheckedRows(pending[i].branch, pending[i].checked)) = 1
       /\ Cardinality(RowsOf(pending[i].branch)) = 2
       /\ pending[i].payload.missingItems # <<"-">>

\* the check state and the store after handleToggleCheck(id) ran twice
ToggledTwice(id) ==
    LET checked1 == ToggledChecks(checkedItems, id)
        store1 == ToggledStorage(localStorage, checkedItems, id)
    IN  [checked |-> ToggledChecks(checked1, id),
         store |-> ToggledStorage(store1, checked1, id)]

(* C10: with a date selected, toggling the id of a row twice in a row      *)
(* restores the checked state of that id and the contents of the store.    *)
C10_ToggleTwiceRestores ==
    (Idle /\ selectedDate # "") =>
       \A id \in IdsOf(FilteredData) :
          /\ (id \in ToggledTwice(id).checked) <=> (id \in checkedItems)
          /\ ToggledTwice(id).store = localStorage

(* C11: while no receiving date is selected, a toggle of any row is        *)
(* refused: the check state in memory and the store are left as they are.  *)
C11_ToggleRefusedWithoutDate ==
    [][\A id \in ItemIds :
          (HandleToggleCheck(id) /\ selectedDate = "")
             => UNCHANGED <<checkedItems, localStorage>>]_vars

\* a toggle has just been refused, with one row on screen checked and
\* another one unchecked
C11_Witness ==
    /\ alert = AlertToggleNoDate
    /\ selectedDate = ""
    /\ \E id \in IdsOf(FilteredData) : id \in checkedItems
    /\ \E id \in IdsOf(FilteredData) : id \notin checkedItems

\* the step is one of the operations that are not a toggle and not a cleanup
OtherOperation ==
    \/ DismissAlert
    \/ \E catalog \in Catalogs : LoadAllDataOk(catalog)
    \/ \E failed \in FailedFetches : LoadAllDataFail(failed)
    \/ \E b \in {<<>>, Bkk, Cnx, AspB, AusB} : SetSelectedBranch(b)
    \/ \E c \in CategoryOptions : SetSelectedCategory(c)
    \/ \E d \in Dates : SetSelectedDate(d)
    \/ \E n \in Notes : SetReportNote(n)
    \/ SetIsDefectMode
    \/ \E fileList \in FileLists : HandleFileSelect(fileList)
    \/ \E index \in 1..MaxFiles : RemoveFile(index)
    \/ HandleSubmit
    \/ \E i \in 1..MaxInflight : EncodeDone(i) \/ EncodeFail(i) \/ PostFail(i)

\* the checked state of the id, in memory or in the store, differs after the step
CheckedStateChanges(id) ==
    \/ (id \in checkedItems') # (id \in checkedItems)
    \/ (StorageKey(id) \in localStorage') # (StorageKey(id) \in localStorage)

(* C12: the checked state of an id, in memory or in the store, changes     *)
(* only in an accepted toggle of that id or in the cleanup after a         *)
(* successful dispatch; selecting a branch, a category or a date, editing  *)
(* the note, adding or removing attachments, switching the defect mode, a  *)
(* catalog load, and a refused or failed submission leave the check state  *)
(* and the store unchanged.                                                *)
C12_ChecksChangeOnlyByToggleOrCleanup ==
    [][/\ \A id \in ItemIds :
             CheckedStateChanges(id)
                => \/ HandleToggleCheck(id) /\ selectedDate # ""
                   \/ \E i \in 1..MaxInflight : PostOk(i)
       /\ (checkedItems' # checkedItems \/ localStorage' # localStorage)
             => ~OtherOperation]_vars

\* checks are held while the category filter is set, a note is typed, the
\* defect mode is on and a third and fourth attachment have just been refused
C12_Witness ==
    /\ checkedItems # {}
    /\ LoadSavedChecks(localStorage) = checkedItems
    /\ selectedCategory # "all"
    /\ reportNote # ""
    /\ isDefectMode
    /\ Len(selectedFiles) = 2
    /\ alert = AlertTooManyFiles

(* C13: the step in which a dispatch succeeds leaves the note empty, the   *)
(* attachment list empty and the defect flag off.                          *)
C13_ReportFieldsResetAfterSuccess ==
    [][\A i \in 1..MaxInflight :
          PostOk(i) => reportNote' = "" /\ selectedFiles' = <<>> /\ ~isDefectMode']_vars

\* a defect report, which has a note and a picture, has just been saved
C13_Witness ==
    /\ alert = AlertSavedDefect
    /\ reportNote = "" /\ selectedFiles = <<>> /\ ~isDefectMode

(* C16: scanning the store for the key prefix, as the startup does, gives  *)
(* exactly the ids that are checked in memory.                             *)
C16_RestartRoundTrip == LoadSavedChecks(localStorage) = checkedItems

(* C14: at no time are two report dispatches in flight: while a submission *)
(* that passed validation has not settled, no second one starts.           *)
C14_OneDispatchInFlight == Len(pending) <= 1

\* the rows on screen that are checked
CheckedRows == {r \in 1..Len(FilteredData) : FilteredData[r].id \in checkedItems}

(* C15: the progress of the rows on screen: total is their number, count   *)
(* the number of them whose id is checked, percent the integer nearest to  *)
(* count / total * 100, isComplete whether count = total; with no row on   *)
(* screen, count 0, percent 0 and isComplete false.                        *)
C15_ProgressOfRowsOnScreen ==
    LET total == Len(FilteredData)
        count == Cardinality(CheckedRows)
    IN  /\ Progress.total = total
        /\ Progress.count = count
        /\ total > 0 =>
              /\ 2 * (Progress.percent * total - 100 * count) <= total
              /\ 2 * (100 * count - Progress.percent * total) <= total
              /\ Progress.isComplete <=> (count = total)
        /\ total = 0 => Progress.percent = 0 /\ ~Progress.isComplete

\* three of eight rows are checked: 37.5 percent, shown as 38
C15_Witness ==
    /\ Len(FilteredData) = 8
    /\ Cardinality(CheckedRows) = 3
    /\ Progress.percent = 38

-----------------------------------------------------------------------------
(* Terms of the ingestion properties: a sheet read as a grid of cells *)

\* the category the k-th sheet is ingested for (lines 91-93)
CategoryNames == <<"RE-Brand", "RE-System", "Special-POP">>

\* the k-th sheet has a line with the anchor label
HasHeader(k) == Includes(sheets[k], "Head Office")

\* the cells of the header line of the k-th sheet, and of its i-th line
HeaderCells(k) == Split(CsvLines(sheets[k])[HeaderIndex(CsvLines(sheets[k]))], ",")
RowCells(k, i) == Split(CsvLines(sheets[k])[i], ",")

\* the lines of the k-th sheet after its header line
DataLines(k) == (HeaderIndex(CsvLines(sheets[k])) + 1)..Len(CsvLines(sheets[k]))

\* a cell without the white space and the quotes around it
CleanCell(cell) == StripQuotes(Trim(cell))

ReservedMarkers == {"Total", "Tracking", "List", "No."}

\* the label of column c of the k-th sheet, and whether it registers a branch
Label(k, c) == CleanCell(HeaderCells(k)[c])
Registered(k, c) ==
    /\ Label(k, c) # <<>>
    /\ \A j \in 1..Len(Label(k, c)) : Label(k, c)[j] \notin ReservedMarkers

\* the cell holds a positive integer numeral, and the number it holds
IsPositiveInteger(cell) ==
    /\ CleanCell(cell) # <<>>
    /\ \A j \in 1..Len(CleanCell(cell)) : IsDigit(CleanCell(cell)[j])
    /\ \E j \in 1..Len(CleanCell(cell)) : CleanCell(cell)[j] # "0"
ValueOf(cell) == DigitsValue(CleanCell(cell), 0)

\* the item name of a row: its primary cell, or the fallback cell when the
\* primary one is empty
NameOfRow(row) ==
    CleanCell(IF Len(row) >= 2 /\ row[2] # <<>> THEN row[2]
              ELSE IF Len(row) >= 1 THEN row[1] ELSE <<>>)

\* the name is empty or begins with a reserved prefix
Unnamed(name) == name = <<>> \/ name[1] \in {"Total", "Tracking"}

\* the items parseCSV returns for the header line and the i-th line alone
RowOutput(k, i) ==
    ParseCSV(Join(<<Join(HeaderCells(k), ","), CsvLines(sheets[k])[i]>>, "\n"),
             CategoryNames[k], {}).items

\* the items of the rows from line i on, one row after the other
RECURSIVE RowOutputsFrom(_, _)
RowOutputsFrom(k, i) ==
    IF i > Len(CsvLines(sheets[k])) THEN <<>>
    ELSE RowOutput(k, i) \o RowOutputsFrom(k, i + 1)

\* how many of the items are the given one
CountOf(items, it) == Cardinality({n \in 1..Len(items) : items[n] = it})

\* the cell of column c in the i-th line of the k-th sheet holds a positive
\* integer, and the catalog item for it
PositiveCell(k, i, c) ==
    /\ Registered(k, c)
    /\ c <= Len(RowCells(k, i))
    /\ IsPositiveInteger(RowCells(k, i)[c])
ItemOfCell(k, i, c) ==
    InventoryItem(Label(k, c), CategoryNames[k], NameOfRow(RowCells(k, i)),
                  ValueOf(RowCells(k, i)[c]))

(* C17: every item of the loaded catalog has a quantity above zero and     *)
(* comes from a cell, in a registered branch column of its category's      *)
(* sheet, that holds that quantity as a positive integer: no item comes    *)
(* from a cell that is zero, negative, empty or not a number, or from a    *)
(* column whose label contains Total, Tracking, List or No.                *)
C17_ItemsComeFromPositiveCells ==
    loadingStatus = "ready" =>
       \A n \in 1..Len(database) :
          /\ database[n].qty > 0
          /\ \E k \in 1..Len(CategoryNames) :
                /\ CategoryNames[k] = database[n].category
                /\ HasHeader(k)
                /\ \E i \in DataLines(k), c \in 1..Len(HeaderCells(k)) :
                      PositiveCell(k, i, c) /\ ItemOfCell(k, i, c) = database[n]

(* C18, as stated: of the rows after the header of a loaded sheet, those   *)
(* whose item name is empty or begins with a reserved prefix produce       *)
(* nothing, and no other row is skipped: every other row produces exactly  *)
(* one item for each registered branch column in which it holds a          *)
(* positive integer.                                                       *)
C18_OnlyUnnamedRowsSkipped ==
    \A k \in 1..Len(CategoryNames) : (loadingStatus = "ready" /\ HasHeader(k)) =>
       \A i \in DataLines(k) :
          IF Unnamed(NameOfRow(RowCells(k, i)))
          THEN RowOutput(k, i) = <<>>
          ELSE \A c \in 1..Len(HeaderCells(k)) :
                  PositiveCell(k, i, c)
                     => CountOf(RowOutput(k, i), ItemOfCell(k, i, c)) = 1

(* C18, amended: of the rows after the header of a loaded sheet, those     *)
(* with fewer than five cells and those whose item name is empty or        *)
(* begins with a reserved prefix produce nothing; every other row produces *)
(* exactly one item for each registered branch column in which it holds a  *)
(* positive integer; and the items of a sheet are the items of its rows,   *)
(* in row order.                                                           *)
C18_RowsOfFiveCellsIngested ==
    \A k \in 1..Len(CategoryNames) : (loadingStatus = "ready" /\ HasHeader(k)) =>
       /\ \A i \in DataLines(k) :
             IF Len(RowCells(k, i)) < 5 \/ Unnamed(NameOfRow(RowCells(k, i)))
             THEN RowOutput(k, i) = <<>>
             ELSE \A c \in 1..Len(HeaderCells(k)) :
                     PositiveCell(k, i, c)
                        => CountOf(RowOutput(k, i), ItemOfCell(k, i, c)) = 1
       /\ ParseCSV(sheets[k], CategoryNames[k], {}).items
             = RowOutputsFrom(k, HeaderIndex(CsvLines(sheets[k])) + 1)

\* a sheet was loaded in which a row named by its fallback cell has a
\* positive head-office and branch quantity, followed by a row of four cells
C18_Witness ==
    /\ loadingStatus = "ready"
    /\ HasHeader(1)
    /\ Len(CsvLines(sheets[1])) = 3
    /\ Len(RowCells(1, 2)) = 5 /\ Len(RowCells(1, 3)) = 4
    /\ RowCells(1, 2)[2] = <<>> /\ NameOfRow(RowCells(1, 2)) = <<"1">>
    /\ PositiveCell(1, 2, 3) /\ PositiveCell(1, 2, 4)
    /\ PositiveCell(1, 3, 4)
    /\ Len(database) = 2

(* C19: a sheet that is empty, or has no line with the anchor label, gives *)
(* no item and leaves the branch set as it was, for every category; a load *)
(* of nothing but such sheets leaves the catalog and the branch list empty. *)
C19_NoHeaderNoItems ==
    /\ \A k \in 1..Len(CategoryNames) :
          (sheets[k] = <<>> \/ ~HasHeader(k)) =>
             \A c \in 1..Len(CategoryNames), branchSet \in {{}, {Bkk}} :
                ParseCSV(sheets[k], CategoryNames[c], branchSet)
                   = [items |-> <<>>, branchSet |-> branchSet]
    /\ (loadingStatus = "ready" /\ \A k \in 1..Len(CategoryNames) : ~HasHeader(k))
          => database = <<>> /\ branches = <<>>

\* a sheet with data rows and no anchor was loaded, the other sheets empty
C19_Witness ==
    /\ loadingStatus = "ready"
    /\ ~HasHeader(1) /\ Len(CsvLines(sheets[1])) = 3
    /\ sheets[2] = <<>> /\ sheets[3] = <<>>
    /\ database = <<>> /\ branches = <<>>

\* the members of the canonical set with the normalized key of the raw label
Matches ==
    {i \in 1..Len(canonicalBranches) :
        NormalizeBranchKey(canonicalBranches[i]) = NormalizeBranchKey(rawBranch)}

(* C20: resolveCanonicalBranch returns the first member of the canonical   *)
(* set, in its iteration order, whose normalized key is that of the raw    *)
(* label; it returns null exactly when the raw label is empty or no member *)
(* has that key; what it returns is a member of the set.                   *)
C20_ResolveFirstMatch ==
    resolved # <<>> =>
       /\ ~resolved[1].found <=> (rawBranch = <<>> \/ Matches = {})
       /\ resolved[1].found =>
             /\ \E i \in Matches :
                   /\ resolved[1].branch = canonicalBranches[i]
                   /\ \A j \in Matches : i <= j
             /\ \E i \in 1..Len(canonicalBranches) :
                   canonicalBranches[i] = resolved[1].branch

\* two members have the key of the raw label, which is neither of them, and
\* the first one was returned
C20_Witness ==
    /\ resolved # <<>>
    /\ resolved[1].found
    /\ Matches = {1, 2}
    /\ rawBranch # canonicalBranches[1] /\ rawBranch # canonicalBranches[2]
    /\ resolved[1].branch = canonicalBranches[1]

\* the characters the claim lets a key be made of
IsAsciiLetter(c) ==
    \E v \in 1..Len(LowerCase) : c = LowerCase[v] \/ c = UpperCase[v]
IsThai(c) == c = ThaiKoKai
Significant(c) == IsAsciiLetter(c) \/ IsDigit(c) \/ IsThai(c)

\* the same character, or the same ASCII letter in different case
SameButCase(a, b) ==
    a = b \/ \E v \in 1..Len(LowerCase) :
                {a, b} = {LowerCase[v], UpperCase[v]}

\* the labels differ only in the case of ASCII letters and in characters
\* that are neither ASCII letters, ASCII digits nor Thai
DifferOnlyInCaseAndFill(x, y) ==
    LET sx == SelectSeq(x, Significant)
        sy == SelectSeq(y, Significant)
    IN  Len(sx) = Len(sy) /\ \A i \in 1..Len(sx) : SameButCase(sx[i], sy[i])

\* the key has only lower-case ASCII letters, ASCII digits and Thai
\* characters, and is its own key
KeyWellFormed(x) ==
    LET key == NormalizeBranchKey(x)
    IN  /\ \A i \in 1..Len(key) :
              \/ \E v \in 1..Len(LowerCase) : key[i] = LowerCase[v]
              \/ IsDigit(key[i])
              \/ IsThai(key[i])
        /\ NormalizeBranchKey(key) = key

\* the labels the resolver was called with
LabelsInCall == {rawBranch} \cup {canonicalBranches[i] : i \in 1..Len(canonicalBranches)}

(* C21, as stated: two labels that differ only in the case of ASCII        *)
(* letters and in characters that are neither ASCII letters, ASCII digits  *)
(* nor Thai have the same key; a key has only lower-case ASCII letters,    *)
(* ASCII digits and Thai characters; and the key of a key is that key.     *)
C21_KeyIgnoresCaseAndFill ==
    /\ \A x, y \in LabelsInCall :
          DifferOnlyInCaseAndFill(x, y)
             => NormalizeBranchKey(x) = NormalizeBranchKey(y)
    /\ \A x \in LabelsInCall : KeyWellFormed(x)

\* the characters whose lower-case form the key keeps
Kept(c) == IsKeyCharacter(ToLowerCase(c))

\* the labels differ only in the case of letters and in characters whose
\* lower-case form is neither an ASCII letter, an ASCII digit nor Thai
DifferOnlyInCaseAndDropped(x, y) ==
    LET sx == SelectSeq(x, Kept)
        sy == SelectSeq(y, Kept)
    IN  /\ Len(sx) = Len(sy)
        /\ \A i \in 1..Len(sx) :
              SameButCase(sx[i], sy[i]) \/ {sx[i], sy[i]} \subseteq {"k", "K", KelvinSign}

(* C21, amended: two labels have the same key whenever they differ only in *)
(* the case of letters, a letter outside ASCII whose lower-case form is an *)
(* ASCII letter (the Kelvin sign, for k) counting as that letter, and in   *)
(* characters whose lower-case form is neither an ASCII letter, an ASCII   *)
(* digit nor Thai; a label the resolver is called with then resolves when  *)
(* the canonical set has a label that differs from it only so; a key has   *)
(* only lower-case ASCII letters, ASCII digits and Thai characters; and    *)
(* the key of a key is that key.                                           *)
C21_KeyIgnoresCaseAndDropped ==
    /\ \A x, y \in LabelsInCall :
          DifferOnlyInCaseAndDropped(x, y)
             => NormalizeBranchKey(x) = NormalizeBranchKey(y)
    /\ \A x \in LabelsInCall : KeyWellFormed(x)
    /\ (resolved # <<>> /\ rawBranch # <<>>
           /\ \E i \in 1..Len(canonicalBranches) :
                 DifferOnlyInCaseAndDropped(rawBranch, canonicalBranches[i]))
          => resolved[1].found

\* a label with a blank and a lower-case letter was resolved to the label of
\* that letter in upper case
C21_Witness ==
    /\ resolved # <<>>
    /\ rawBranch = <<" ", "b">>
    /\ canonicalBranches = << <<"B">> >>
    /\ resolved[1] = [found |-> TRUE, branch |-> <<"B">>]

\* the labels name one branch: they have the same normalized key
SameBranch(a, b) == NormalizeBranchKey(a) = NormalizeBranchKey(b)

(* C22: no two entries of the branch list have the same normalized key,    *)
(* and with a branch selected the rows on screen include every catalog     *)
(* item of the selected category whose branch label has the normalized key *)
(* of the selected branch.                                                 *)
C22_OneBranchPerKey ==
    loadingStatus = "ready" =>
       /\ \A i, j \in 1..Len(branches) :
             SameBranch(branches[i], branches[j]) => i = j
       /\ selectedBranch # <<>> =>
             \A n \in 1..Len(database) :
                (/\ SameBranch(database[n].branch, selectedBranch)
                 /\ selectedCategory \in {"all", database[n].category})
                   => \E r \in 1..Len(FilteredData) : FilteredData[r] = database[n]

\* the items of the three sheets, each ingested for its category, in the
\* order brand, system, special
MergedItems ==
    ParseCSV(sheets[1], CategoryNames[1], {}).items
    \o ParseCSV(sheets[2], CategoryNames[2], {}).items
    \o ParseCSV(sheets[3], CategoryNames[3], {}).items

\* the branch labels the header lines of the three sheets register
RegisteredLabels ==
    UNION {ParseCSV(sheets[k], CategoryNames[k], {}).branchSet :
              k \in 1..Len(CategoryNames)}

(* C23: a load in which one or more of the three fetches fail sets the     *)
(* status to 'error' and leaves the catalog and the branch list as they    *)
(* were, with nothing of the other sheets merged; the status becomes       *)
(* 'ready' only in a step that merges the items of all three sheets and    *)
(* lists branches their headers register.                                  *)
C23_LoadIsAllOrNothing ==
    [][/\ \A failed \in FailedFetches :
             LoadAllDataFail(failed)
                => /\ loadingStatus' = "error"
                   /\ database' = database /\ branches' = branches
       /\ (loadingStatus' = "error" /\ loadingStatus # "error")
             => database' = database /\ branches' = branches
       /\ (loadingStatus' = "ready" /\ loadingStatus # "ready")
             => /\ database' = MergedItems
                /\ \A i \in 1..Len(branches') : branches'[i] \in RegisteredLabels]_vars

\* the load has failed although the brand sheet and the system sheet hold
\* items: the catalog and the branch list are still empty
C23_Witness ==
    /\ loadingStatus = "error"
    /\ ParseCSV(sheets[1], CategoryNames[1], {}).items # <<>>
    /\ ParseCSV(sheets[2], CategoryNames[2], {}).items # <<>>
    /\ database = <<>> /\ branches = <<>>

(* C24: the attachment list never holds more than 3 files, every           *)
(* dispatched Report carries at most 3 images, one for each file attached  *)
(* when it was submitted, and a selection that would take the list above 3 *)
(* files leaves the list as it was.                                        *)
C24_AtMostThreeAttachments ==
    [][/\ Len(selectedFiles') <= MaxFiles
       /\ \A i \in 1..Len(pending') :
             pending'[i].phase = "posting"
                => /\ Len(pending'[i].payload.images) \in 0..MaxFiles
                   /\ Len(pending'[i].payload.images) = Len(pending'[i].files)
       /\ \A fileList \in FileLists :
             (HandleFileSelect(fileList)
              /\ Len(selectedFiles) + Len(fileList) > MaxFiles)
                => selectedFiles' = selectedFiles]_vars

\* a Report with 3 images is dispatched, and with 2 files in the list a
\* selection of 2 more has just been refused
C24_Witness ==
    /\ \E i \in Dispatched : Len(pending[i].payload.images) = MaxFiles
    /\ Len(selectedFiles) = 2
    /\ alert = AlertTooManyFiles

\* the step ends the search in flight
SearchSettles == historyQuery # <<>> /\ historyQuery' = <<>>

(* C25: when a search settles with a list of one or more records, the      *)
(* record displayed is the last one of the list; when it settles with an   *)
(* empty list, with null, or by a failure, no record is displayed; the     *)
(* loading flag is true exactly while a search is in flight, and false     *)
(* after the search has settled.                                           *)
C25_SearchSurfacesLastRecord ==
    [][/\ SearchSettles =>
             LET query == historyQuery[1]
                 list == query.data.list
             IN  /\ (query.phase = "reading" /\ Len(list) > 0 /\ alert' = NoAlert)
                       => historyData' = <<list[Len(list)]>>
                 /\ (query.phase = "fetching" \/ Len(list) = 0 \/ alert' # NoAlert)
                       => historyData' = <<>>
                 /\ ~isHistoryLoading'
       /\ isHistoryLoading' <=> historyQuery' # <<>>]_vars

\* the store holds two records of a branch and its date, and a search has
\* surfaced the second one
C25_Witness ==
    /\ historyQuery = <<>> /\ ~isHistoryLoading
    /\ Len(reportStore) = 2
    /\ reportStore[1].branch = reportStore[2].branch
    /\ reportStore[1] # reportStore[2]
    /\ historyData = <<reportStore[2]>>

(* C26: a toggle made while a dispatch is in flight is not lost: the step  *)
(* in which the dispatch succeeds and its cleanup runs leaves the checked  *)
(* state in memory of every item of a branch other than the submitted one  *)
(* as the toggles up to that step made it.                                 *)
C26_TogglesInFlightSurvive ==
    [][\A i \in 1..MaxSubmits :
          PostOk(i) =>
             \A r \in 1..Len(database) :
                database[r].branch # pending[i].branch
                   => (database[r].id \in checkedItems')
                         = (database[r].id \in checkedItems)]_vars

\* no two items of the catalog that differ in branch label or item name have
\* one id
IdsSeparatePairs(db) ==
    \A m, n \in 1..Len(db) :
       db[m].id = db[n].id
          => db[m].branch = db[n].branch /\ db[m].item = db[n].item

\* the step leaves the checked state of the items of the branches other than
\* the selected one as it was
OtherBranchesKeepChecks ==
    \A n \in 1..Len(database) :
       database[n].branch # selectedBranch
          => (database[n].id \in checkedItems') = (database[n].id \in checkedItems)

(* C27: two items of the catalog have the same id only if they have the    *)
(* same branch label and the same item name, and a toggle of a row shown   *)
(* for the selected branch leaves the checked state of the items of every  *)
(* other branch as it was.                                                 *)
C27_IdsSeparateBranches ==
    [][/\ IdsSeparatePairs(database')
       /\ \A id \in IdsOf(FilteredData) :
             HandleToggleCheck(id) => OtherBranchesKeepChecks]_vars

\* the report section shows the Complete mode (lines 325-329)
CompleteModeShown == Progress.isComplete /\ ~isDefectMode

(* C28: the mode on screen is the mode of the validation: a submit made    *)
(* while the Complete mode is shown is accepted exactly when there is an   *)
(* attachment, and its Report has the fixed note; and a submit to which    *)
(* the Missing-Items rule applies is made while the Complete mode is not   *)
(* shown and the note field is, whatever the category filter.              *)
C28_ShownModeIsValidatedMode ==
    [][SubmitWithBranchAndDate =>
          /\ CompleteModeShown =>
                /\ SubmitAccepted <=> Len(selectedFiles) > 0
                /\ SubmitAccepted
                      => FinalNote(database, pending'[Len(pending')]) = ReceivedAll
          /\ AnyUncheckedIn(selectedBranch, checkedItems) =>
                ~CompleteModeShown /\ NoteFieldShown]_vars

(* C29, as stated: the progress of the rows on screen has                  *)
(* 0 <= count <= total and 0 <= percent <= 100, and percent is 100 only    *)
(* when isComplete is true, that is when every row on screen is checked.   *)
C29_PercentFullOnlyWhenComplete ==
    /\ 0 <= Progress.count /\ Progress.count <= Progress.total
    /\ 0 <= Progress.percent /\ Progress.percent <= 100
    /\ Progress.percent = 100 => Progress.isComplete
    /\ Progress.isComplete <=>
          (Len(FilteredData) > 0
           /\ \A r \in 1..Len(FilteredData) : FilteredData[r].id \in checkedItems)

(* C29, amended: the progress of the rows on screen has                    *)
(* 0 <= count <= total and 0 <= percent <= 100; percent is 100 only when   *)
(* isComplete is true or at most one row in 200 is unchecked (in a list of *)
(* fewer than 200 rows: only when isComplete is true); and isComplete is   *)
(* true exactly when there are rows on screen and all are checked, and     *)
(* percent is 100 then.                                                    *)
C29_ProgressWithinRange ==
    /\ 0 <= Progress.count /\ Progress.count <= Progress.total
    /\ 0 <= Progress.percent /\ Progress.percent <= 100
    /\ Progress.percent = 100
          => \/ Progress.isComplete
             \/ 200 * (Progress.total - Progress.count) <= Progress.total
    /\ (Progress.percent = 100 /\ Progress.total < 200) => Progress.isComplete
    /\ Progress.isComplete <=>
          (Len(FilteredData) > 0
           /\ \A r \in 1..Len(FilteredData) : FilteredData[r].id \in checkedItems)
    /\ Progress.isComplete => Progress.percent = 100

\* of 200 rows on screen 199 are checked: 99.5 percent, shown as 100
C29_Witness ==
    /\ Len(FilteredData) = 200
    /\ Progress.count = 199
    /\ Progress.percent = 100
    /\ ~Progress.isComplete

OrderedItems ==
    {database[r].item :
        r \in {q \in 1..Len(database) :
                 /\ database[q].category = orderCategory
                 /\ \E p \in orderQuantities :
                       p[1] = database[q].item /\ p[2] > 0}}

\* the rows are the ordered items, each once and with its quantity
RowsAreOrderedItems(rows) ==
    /\ Len(rows) = Cardinality(OrderedItems)
    /\ {rows[i][1] : i \in 1..Len(rows)} = OrderedItems
    /\ \A i \in 1..Len(rows) : <<rows[i][1], rows[i][2]>> \in orderQuantities

(* C31: in the order panel an export saves no file when no branch is       *)
(* selected or no item of the current category has a quantity above 0;     *)
(* otherwise it saves one file whose rows are exactly the items of the     *)
(* current category with a quantity above 0; and the 'Total Items' count   *)
(* always equals the number of rows an export would contain.               *)
C31_ExportMatchesTotal ==
    /\ [](TotalItems = Cardinality(OrderedItems))
    /\ [][HandleExportExcel =>
             IF orderBranch = <<>> \/ OrderedItems = {}
             THEN orderSaved' = orderSaved
             ELSE /\ Len(orderSaved') = Len(orderSaved) + 1
                  /\ SubSeq(orderSaved', 1, Len(orderSaved)) = orderSaved
                  /\ RowsAreOrderedItems(orderSaved'[Len(orderSaved')].rows)]_vars

\* the category was changed to one with a single item and a file of one row
\* saved for it, which the count shows; then the category was changed back
\* and two quantities typed, one of them above 0
C31_Witness ==
    /\ Len(orderSaved) = 1
    /\ orderSaved[1].category = "RE-System" /\ Len(orderSaved[1].rows) = 1
    /\ orderCategory = "RE-Brand"
    /\ Cardinality(orderQuantities) = 2 /\ TotalItems = 1

=============================================================================
